---- MODULE Spec2Model ----
(***************************************************************************)
(* A model of moltworker's failure-handling core:                          *)
(*   - withSandboxResetRetry (src/src/sandbox.ts), the retry wrapper that  *)
(*     reacquires the sandbox stub after a Durable Object reset;           *)
(*   - the backup engine of the container start script                     *)
(*     (src/unnamed/part_001): restore_from_r2, sync_once, the background  *)
(*     sync loop and the shutdown handler.                                 *)
(* Each mechanism has its own specification over its own variables; the    *)
(* variables of the other mechanisms stay at their initial values.         *)
(***************************************************************************)
EXTENDS Integers, Sequences, FiniteSets, TLC

VARIABLES
    \* ---- withSandboxResetRetry ----
    rPc,          \* "idle" | "loop" | "returned" | "thrown"
    options,      \* the caller's options: [attempts, initialGiven]
    attempts,     \* const attempts (sandbox.ts:45)
    attempt,      \* loop variable (sandbox.ts:49)
    sandbox,      \* let sandbox (sandbox.ts:46): the id of the current stub
    lastError,    \* let lastError (sandbox.ts:47)
    created,      \* number of createMoltbotSandbox calls so far
    calls,        \* the invocations of operation: <<[sandbox, attempt, outcome]>>
    warnings,     \* console.warn diagnostics: <<[attempt, attempts]>>
    rResult,      \* the value returned or thrown to the caller
    \* ---- the start script's backup engine: environment ----
    r2,           \* r2_configured: the three credentials are set
    clock,        \* the time of file-system events: it advances with every write
    mtime,        \* modification time of each local file (0: no such file)
    wsDir,        \* [ -d "$WORKSPACE_DIR" ]
    skillsDir,    \* [ -d "$SKILLS_DIR" ]
    remote,       \* per remote prefix, the state of the local file last copied
    \* ---- persisted records ----
    marker,       \* mtime of SYNC_MARKER_FILE, the change watermark (0: absent)
    lastSync,     \* LAST_SYNC_FILE: time of the last successful sync (0: absent)
    lastSyncError,\* LAST_SYNC_ERROR_FILE: <<>> (absent) or <<[at, reason]>>
    syncLog,      \* the last [sync] or [shutdown] line of SYNC_LOG_FILE (<<>>: none)
    lockHeld,     \* SYNC_LOCK_DIR exists
    \* ---- processes ----
    mPc,          \* position of the main shell
    lPc,          \* position of the background loop's subshell
    sPc,          \* position of each sync_once invocation, by caller
    sReason,      \* sync_once's local reason, by caller
    sOk,          \* sync_once's local sync_ok, by caller
    sRclone,      \* rclone runs of the caller's current invocation
    sinceForced,  \* now_epoch - last_forced_sync_epoch of the loop, in seconds
    waited,       \* waited of run_shutdown_sync_with_timeout
    shuttingDown, \* SHUTTING_DOWN
    gateway,      \* the managed process: "none" | "running" | "signalled" (sent TERM) | "exited"
    ticks,        \* number of loop iterations so far
    writes,       \* number of file writes by the gateway so far
    \* ---- restore_from_r2 ----
    rsPc,         \* position of restore_from_r2
    rRuns,        \* number of invocations so far (one for each run of the script)
    restoreStatus,\* RESTORE_STATUS_FILE: <<>> (absent) or <<[state, detail]>>
    restoreErrorLog, \* the kinds of lines in RESTORE_ERROR_FILE
    rProbes,      \* rclone ls calls of the current invocation
    rCopies,      \* rclone copy calls of the current invocation
    restoredAny,  \* local restored_any
    legacy,       \* the bucket holds clawdbot/clawdbot.json
    rReturn,      \* exit status of the last invocation
    forceRestore, \* FORCE_RESTORE_MARKER_FILE (/tmp/.force-r2-restore) exists
    rProbe,       \* the latest *_probe local of the current invocation ("none": no probe yet)
    rCopy,        \* how the latest rclone copy of the current invocation ended ("none": no copy yet)
    rWrites,      \* writes of the restore-status record by the current run of the script
    rProbeLog,    \* the probes of the current invocation in order: path probed, answer
    legacyPrimary,\* the bucket's clawdbot/ prefix also holds a file openclaw.json
    legacyLocal,  \* $CONFIG_DIR/clawdbot.json exists
    \* waitForProcess (src/src/gateway/utils.ts)
    wPc,            \* "called", "loop", "resolved", "rejected"; "idle": no call
    proc,           \* the process object: its status field and whether it has getStatus
    timeoutMs,
    pollIntervalMs,
    maxAttempts,
    wAttempts,      \* attempts
    currentStatus,
    wLive,          \* the status of the process itself at the latest read
    wSeen,          \* the values currentStatus has taken, in order
    wQueries,       \* calls of proc.getStatus
    wSleeps,        \* sleeps of pollIntervalMs
    wResult,        \* the resolved value
    wError,         \* the Error thrown
    \* evaluateCliOutcome (src/src/sandbox-alarm.ts)
    cPc,              \* "called", "returned"; "idle": no call
    cProc,            \* the process object: status field, exitCode, whether it has getStatus
    cLive,            \* what getStatus answers
    logs,             \* what getLogs answers
    successKeywords,
    outcome,          \* the CliOutcome returned
    \* the storage routes of the admin API (src/src/sandbox-alarm.ts)
    aPc,              \* "ready", "answered"; "idle": no request
    aRequest,         \* the route requested
    cenv,             \* c.env: which of the credential bindings are set
    sbFiles,          \* the text of the three status files in the container
    aCalls,           \* the calls the handler made on the sandbox and the gateway module
    aResponse,        \* the response
    \* Sandbox.alarm (src/src/sandbox-alarm.ts)
    alPc,             \* "called", "catch", "resolved", "rejected"; "idle": no call
    alarmProps,       \* the argument: retryCount and isRetry
    alError,          \* the value super.alarm threw
    alSchedules,      \* the calls of scheduleNextAlarm: delay, and whether it came back
    alLog,            \* the console.error and console.warn calls
    \* the worker's catch-all route (src/src/sandbox.ts)
    pPc,              \* "find", "ensure", "forward", "background", "answered"; "idle": no request
    pRequest,         \* the Upgrade and Accept headers of the request
    pKey,             \* whether c.env.ANTHROPIC_API_KEY is set
    existingProcess,  \* what findExistingClawdbotProcess resolved with
    pEvents,          \* the calls of the handler and how they settled, in order
    pResponse         \* the response

retryVars == <<rPc, options, attempts, attempt, sandbox, lastError, created, calls,
               warnings, rResult>>

envVars == <<r2, clock, mtime, wsDir, skillsDir, remote>>

recordVars == <<marker, lastSync, lastSyncError, syncLog, lockHeld>>

loopVars == <<lPc, sPc, sReason, sOk, sRclone, sinceForced, waited,
              shuttingDown, gateway, ticks, writes>>

procVars == <<mPc, loopVars>>

syncVars == <<envVars, recordVars, procVars>>

restoreVars == <<rsPc, rRuns, restoreStatus, restoreErrorLog, rProbes, rCopies,
                 restoredAny, legacy, rReturn, forceRestore, rProbe, rCopy,
                 rWrites, rProbeLog, legacyPrimary, legacyLocal>>

waitVars == <<wPc, proc, timeoutMs, pollIntervalMs, maxAttempts, wAttempts,
              currentStatus, wLive, wSeen, wQueries, wSleeps, wResult, wError>>

\* The worker-side calls that are modelled on their own.
cliVars == <<cPc, cProc, cLive, logs, successKeywords, outcome>>

adminVars == <<aPc, aRequest, cenv, sbFiles, aCalls, aResponse>>

alarmVars == <<alPc, alarmProps, alError, alSchedules, alLog>>

proxyVars == <<pPc, pRequest, pKey, existingProcess, pEvents, pResponse>>

callVars == <<waitVars, cliVars, adminVars, alarmVars, proxyVars>>

vars == <<retryVars, syncVars, restoreVars, callVars>>

Max(a, b) == IF a >= b THEN a ELSE b

(***************************************************************************)
(* withSandboxResetRetry                                                   *)
(***************************************************************************)

\* Largest attempts option a caller passes.
MaxAttempts == 4

DEFAULT_RETRY_ATTEMPTS == 3

\* Error messages are sequences of text pieces; the two reset fragments are
\* pieces of their own, so String.includes is the search for a piece.
FRAG_STORAGE_RESET == "Internal error in Durable Object storage caused object to be reset"
FRAG_CODE_UPDATED == "Durable Object reset because its code was updated"

DURABLE_OBJECT_RESET_ERROR_FRAGMENTS == {FRAG_STORAGE_RESET, FRAG_CODE_UPDATED}

Includes(message, fragment) == \E i \in 1..Len(message) : message[i] = fragment

Messages ==
    { <<>>, <<"boom">>, <<FRAG_STORAGE_RESET>>, <<"rpc: ", FRAG_CODE_UPDATED>>,
      <<FRAG_STORAGE_RESET, "; retry later">> }

\* A thrown value: an Error (instanceof Error) or any other value carrying a
\* text; id tells two throws apart.
NoError == [isError |-> FALSE, message |-> <<>>, id |-> 0]

Thrown(id) == [isError : BOOLEAN, message : Messages, id : {id}]

isDurableObjectResetError(error) ==
    IF ~error.isError
    THEN FALSE
    ELSE \E fragment \in DURABLE_OBJECT_RESET_ERROR_FRAGMENTS :
            Includes(error.message, fragment)

\* createMoltbotSandbox returns a new stub each call; stub 0 is the caller's
\* initialSandbox.
InitialSandbox == 0

NewSandbox == created + 1

\* options.attempts: absent, or a number.
AttemptsOptions ==
    {[given |-> FALSE, value |-> 0]} \cup
    [given : {TRUE}, value : -1..MaxAttempts]

ClampAttempts_NoClamp(opt) == IF opt.given THEN opt.value ELSE DEFAULT_RETRY_ATTEMPTS

ClampAttempts(opt) ==
    Max(1, IF opt.given THEN opt.value ELSE DEFAULT_RETRY_ATTEMPTS)

RetryInit ==
    /\ rPc = "idle"
    /\ options = [attempts |-> [given |-> FALSE, value |-> 0], initialGiven |-> FALSE]
    /\ attempts = 0
    /\ attempt = 0
    /\ sandbox = InitialSandbox
    /\ lastError = NoError
    /\ created = 0
    /\ calls = <<>>
    /\ warnings = <<>>
    /\ rResult = [ok |-> TRUE, value |-> 0]

\* sandbox.ts:45-47 and the loop head's initialiser.
RetryBegin ==
    /\ rPc = "idle"
    /\ \E opt \in AttemptsOptions, initialGiven \in BOOLEAN :
        /\ options' = [attempts |-> opt, initialGiven |-> initialGiven]
        /\ attempts' = ClampAttempts(opt)
        /\ IF initialGiven
           THEN sandbox' = InitialSandbox /\ created' = created
           ELSE sandbox' = NewSandbox /\ created' = created + 1
    /\ attempt' = 1
    /\ rPc' = "loop"
    /\ UNCHANGED <<lastError, calls, warnings, rResult, syncVars, restoreVars, callVars>>

\* The catch block's decision (sandbox.ts:55): rethrow, or reacquire and retry.
Rethrows_RetryAnyError(error, n, total) == n = total

Rethrows_Never(error, n, total) == FALSE

Rethrows(error, n, total) == ~isDurableObjectResetError(error) \/ n = total

\* The value the catch block throws (sandbox.ts:56): the caught value itself.
Propagate_Wrapped(error) ==
    [isError |-> TRUE, message |-> <<"Sandbox operation failed: ">> \o error.message,
     id |-> 0]

Propagate(error) == error

\* What is thrown when the loop ends without a return or a throw
\* (sandbox.ts:67-71): lastError if it is an Error, else a new Error.
SynthesizedError ==
    [isError |-> TRUE, message |-> <<"Sandbox operation failed without an error">>,
     id |-> 0]

AfterLoop(error) == IF error.isError THEN error ELSE SynthesizedError

\* The stub the next attempt runs with (sandbox.ts:63).
Reacquire_KeepStub == sandbox

Reacquire == NewSandbox

\* One iteration of the loop (sandbox.ts:49-65): operation is awaited with the
\* current stub and the attempt index, and either returns or throws. An
\* iteration that neither returns nor throws goes to the loop head, which
\* starts the next iteration or leaves the loop for lines 67-71.
RetryIterationOk ==
    /\ rPc = "loop"
    /\ attempt <= attempts
    /\ LET value == Len(calls) + 1 IN
        /\ calls' = Append(calls, [sandbox |-> sandbox, attempt |-> attempt,
                                   created |-> created, ok |-> TRUE, value |-> value, error |-> NoError])
        /\ rResult' = [ok |-> TRUE, value |-> value]
    /\ rPc' = "returned"
    /\ UNCHANGED <<options, attempts, attempt, sandbox, lastError, created, warnings, syncVars, restoreVars, callVars>>

RetryIterationThrow ==
    /\ rPc = "loop"
    /\ attempt <= attempts
    /\ \E error \in Thrown(Len(calls) + 1) :
        /\ calls' = Append(calls, [sandbox |-> sandbox, attempt |-> attempt,
                                   created |-> created, ok |-> FALSE, value |-> 0, error |-> error])
        /\ lastError' = error
        /\ IF Rethrows(error, attempt, attempts)
           THEN /\ rPc' = "thrown"
                /\ rResult' = [ok |-> FALSE, value |-> Propagate(error)]
                /\ UNCHANGED <<attempt, sandbox, created, warnings>>
           ELSE /\ warnings' = Append(warnings, [attempt |-> attempt, attempts |-> attempts])
                /\ sandbox' = Reacquire
                /\ created' = created + 1
                /\ attempt' = attempt + 1
                /\ IF attempt + 1 <= attempts
                   THEN UNCHANGED <<rPc, rResult>>
                   ELSE /\ rPc' = "thrown"
                        /\ rResult' = [ok |-> FALSE, value |-> AfterLoop(error)]
    /\ UNCHANGED <<options, attempts, syncVars, restoreVars, callVars>>

RetryNext == RetryBegin \/ RetryIterationOk \/ RetryIterationThrow

(***************************************************************************)
(* The backup engine of the start script (src/unnamed/part_001)            *)
(***************************************************************************)

\* Iterations of the background loop in a run.
MaxTicks == 2

\* File writes by the gateway in a run.
MaxWrites == 1

SYNC_SCAN_INTERVAL_SECONDS == 30

SYNC_FORCE_INTERVAL_SECONDS == 300

\* timeout_seconds of run_shutdown_sync_with_timeout.
SHUTDOWN_TIMEOUT_SECONDS == 45

\* One file in each place the script tells apart.
CONFIG_FILE == "openclaw/openclaw.json"
WORKSPACE_FILE == "clawd/notes.md"
SKILLS_FILE == "clawd/skills/skill.md"
NODE_MODULES_FILE == "clawd/node_modules/pkg/index.js"

Files == {CONFIG_FILE, WORKSPACE_FILE, SKILLS_FILE, NODE_MODULES_FILE}

InConfigDir(f) == f = CONFIG_FILE

InWorkspaceDir(f) == f \in {WORKSPACE_FILE, SKILLS_FILE, NODE_MODULES_FILE}

InSkillsDir(f) == f = SKILLS_FILE

InNodeModulesOrGit(f) == f = NODE_MODULES_FILE

\* The directory a file lies in exists.
DirExists(f) ==
    IF InSkillsDir(f) THEN skillsDir
    ELSE IF InWorkspaceDir(f) THEN wsDir
    ELSE TRUE

Exists(f) == mtime[f] > 0

\* find DIR -newer "$SYNC_MARKER_FILE" -type f: with no marker file find fails
\* and prints nothing.
Newer(f) == marker > 0 /\ Exists(f) /\ mtime[f] > marker

\* The three find commands of the loop (changed_file is non-empty).
ChangedFiles_ConfigOnly == {f \in Files : InConfigDir(f) /\ Newer(f)}

ChangedFiles_NoExclusions ==
    {f \in Files : (InConfigDir(f) \/ InWorkspaceDir(f) \/ InSkillsDir(f)) /\ Newer(f)}

ChangedFiles ==
    {f \in Files :
        /\ \/ InConfigDir(f)
           \/ InWorkspaceDir(f) /\ ~InNodeModulesOrGit(f)
           \/ InSkillsDir(f)
        /\ Newer(f)}

\* The three remote prefixes sync_once copies to, and the local files each
\* rclone sync sends there (its source directory less its --exclude patterns).
Prefixes == {"openclaw", "workspace", "skills"}

CopiedTo(prefix) ==
    CASE prefix = "openclaw" -> {f \in Files : InConfigDir(f)}
      [] prefix = "workspace" ->
            {f \in Files : InWorkspaceDir(f) /\ ~InSkillsDir(f) /\ ~InNodeModulesOrGit(f)}
      [] prefix = "skills" -> {f \in Files : InSkillsDir(f)}

Snapshot(prefix) == [f \in CopiedTo(prefix) |-> mtime[f]]

SourceDirExists(prefix) ==
    CASE prefix = "openclaw" -> TRUE
      [] prefix = "workspace" -> wsDir
      [] prefix = "skills" -> skillsDir

\* r2_configured (lines 111-113): the three credentials are all non-empty.
r2_configured_Always == TRUE

r2_configured == r2

\* The callers of sync_once: the background loop and the shutdown handler.
Callers == {"loop", "shutdown"}

\* Between mkdir "$SYNC_LOCK_DIR" and rmdir "$SYNC_LOCK_DIR".
CriticalPcs == {"copy", "record", "release"}

InSync(p) == sPc[p] \in CriticalPcs

NoSyncError == <<>>

\* The state in which the engine does nothing (the other specifications).
SyncIdle ==
    /\ r2 = FALSE /\ clock = 1
    /\ mtime = [f \in Files |-> 0]
    /\ wsDir = FALSE /\ skillsDir = FALSE
    /\ remote = [x \in Prefixes |-> [f \in CopiedTo(x) |-> 0]]
    /\ marker = 0 /\ lastSync = 0 /\ lastSyncError = NoSyncError
    /\ syncLog = <<>> /\ lockHeld = FALSE
    /\ mPc = "trap_set" /\ lPc = "none"
    /\ sPc = [p \in Callers |-> "idle"]
    /\ sReason = [p \in Callers |-> "manual"]
    /\ sOk = [p \in Callers |-> TRUE]
    /\ sRclone = [p \in Callers |-> 0]
    /\ sinceForced = 0 /\ waited = 0
    /\ shuttingDown = FALSE /\ gateway = "none"
    /\ ticks = 0 /\ writes = 0

\* The script has restored and configured and has just installed its trap
\* (line 764). The config file was written a moment ago (line 596, at every
\* boot); the other files are older. The records live in /tmp: none exists in
\* a fresh container, and when the script runs again in the container of an
\* earlier run, that run's last-sync timestamp and marker are still there
\* (line 39 removes the error records only) and the bucket holds what its
\* last sync copied.
SyncInit ==
    /\ r2 \in BOOLEAN
    /\ clock = 2
    /\ wsDir \in BOOLEAN /\ skillsDir \in BOOLEAN
    /\ skillsDir => wsDir
    /\ mtime = [f \in Files |->
                 IF InConfigDir(f) THEN 2 ELSE IF DirExists(f) THEN 1 ELSE 0]
    /\ lastSync \in {0, 1}
    /\ remote = [x \in Prefixes |-> [f \in CopiedTo(x) |->
                    IF lastSync = 1 /\ DirExists(f) THEN 1 ELSE 0]]
    /\ marker = lastSync
    /\ lastSyncError = NoSyncError
    /\ syncLog = <<>> /\ lockHeld = FALSE
    /\ mPc = "trap_set" /\ lPc = "none"
    /\ sPc = [p \in Callers |-> "idle"]
    /\ sReason = [p \in Callers |-> "manual"]
    /\ sOk = [p \in Callers |-> TRUE]
    /\ sRclone = [p \in Callers |-> 0]
    /\ sinceForced = 0 /\ waited = 0
    /\ shuttingDown = FALSE /\ gateway = "none"
    /\ ticks = 0 /\ writes = 0

\* The gateway (or the user through it) writes a file of an existing directory.
WriteFile ==
    /\ gateway = "running"
    /\ writes < MaxWrites
    /\ \E f \in Files :
        /\ DirExists(f)
        /\ mtime' = [mtime EXCEPT ![f] = clock + 1]
    /\ clock' = clock + 1
    /\ writes' = writes + 1
    /\ UNCHANGED <<r2, wsDir, skillsDir, remote, recordVars,
                   mPc, lPc, sPc, sReason, sOk, sRclone, sinceForced,
                   waited, shuttingDown, gateway, ticks, retryVars, restoreVars, callVars>>

(***************************************************************************)
(* sync_once                                                               *)
(***************************************************************************)

\* mkdir "$SYNC_LOCK_DIR" fails: the directory exists.
LockBusy_MkdirP == FALSE

LockBusy == lockHeld

\* The lines sync_once and the shutdown handler append to the sync log.
SkipEntry_NoReason(reason) == [kind |-> "Skip (lock busy)", reason |-> ""]

SkipEntry(reason) == [kind |-> "Skip (lock busy)", reason |-> reason]

LogEntry(kind, reason) == [kind |-> kind, reason |-> reason]

\* echo ... >> "$SYNC_LOG_FILE". Every writer appends, so the earlier lines
\* never change: the log is kept as its last line.
AppendLine(log, line) == <<line>>

\* What the caller does with sync_once's exit status. The loop (line 704):
\* if sync_once "$reason"; then last_forced_sync_epoch="$now_epoch"; fi, then
\* the next sleep. The shutdown sync is a background job that ends.
Returned(p, status) ==
    /\ sReason' = [sReason EXCEPT ![p] = "manual"]
    /\ sOk' = [sOk EXCEPT ![p] = TRUE]
    /\ sRclone' = [sRclone EXCEPT ![p] = 0]
    /\ IF p = "loop"
       THEN /\ sPc' = [sPc EXCEPT ![p] = "idle"]
            /\ lPc' = "sleep"
            /\ sinceForced' = IF status = 0 THEN 0 ELSE sinceForced
       ELSE /\ sPc' = [sPc EXCEPT ![p] = "done"]
            /\ UNCHANGED <<lPc, sinceForced>>

\* Lines 601-616: the credentials check, the non-blocking lock, the Start line.
SyncTryLock(p) ==
    /\ sPc[p] = "lock"
    /\ IF ~r2_configured
       THEN /\ Returned(p, 0)
            /\ UNCHANGED recordVars
       ELSE IF LockBusy
       THEN /\ syncLog' = AppendLine(syncLog, SkipEntry(sReason[p]))
            /\ Returned(p, 0)
            /\ UNCHANGED <<marker, lastSync, lastSyncError, lockHeld>>
       ELSE /\ lockHeld' = TRUE
            /\ sOk' = [sOk EXCEPT ![p] = TRUE]
            /\ syncLog' = AppendLine(syncLog, LogEntry("Start", sReason[p]))
            /\ sPc' = [sPc EXCEPT ![p] = "copy"]
            /\ UNCHANGED <<marker, lastSync, lastSyncError, lPc, sinceForced,
                           sReason, sRclone>>
    /\ UNCHANGED <<envVars, mPc, waited, shuttingDown, gateway,
                   ticks, writes, retryVars, restoreVars, callVars>>

\* Lines 618-637: one rclone sync per tree whose directory exists; a failed
\* one clears sync_ok and the next tree is still tried. The three runs are
\* taken as one step: copied[x] tells whether the run for prefix x succeeds.
Attempted == {x \in Prefixes : SourceDirExists(x)}

SyncOkAfter_LastOnly(copied) == copied["skills"]

SyncOkAfter(copied) == \A x \in Attempted : copied[x]

SyncCopy(p) ==
    /\ sPc[p] = "copy"
    /\ \E copied \in [Prefixes -> BOOLEAN] :
        /\ remote' = [x \in Prefixes |->
                        IF x \in Attempted /\ copied[x] THEN Snapshot(x) ELSE remote[x]]
        /\ sOk' = [sOk EXCEPT ![p] = SyncOkAfter(copied)]
    /\ sRclone' = [sRclone EXCEPT ![p] = Cardinality(Attempted)]
    /\ sPc' = [sPc EXCEPT ![p] = "record"]
    /\ UNCHANGED <<r2, clock, mtime, wsDir, skillsDir, recordVars, mPc, lPc,
                   sReason, sinceForced, waited, shuttingDown,
                   gateway, ticks, writes, retryVars, restoreVars, callVars>>

\* Lines 639-650: what each record holds after the outcome is written at time t.
LastSyncAfter_Always(ok, t) == t

LastSyncAfter(ok, t) == IF ok THEN t ELSE lastSync

ErrorAfter_KeepOld(ok, t, reason) ==
    IF ok THEN lastSyncError ELSE <<[at |-> t, reason |-> reason]>>

ErrorAfter(ok, t, reason) ==
    IF ok THEN NoSyncError ELSE <<[at |-> t, reason |-> reason]>>

MarkerAfter_Always(ok, t) == t

MarkerAfter(ok, t) == IF ok THEN t ELSE marker

SyncRecord(p) ==
    /\ sPc[p] = "record"
    /\ LET t == clock IN
        /\ lastSync' = LastSyncAfter(sOk[p], t)
        /\ lastSyncError' = ErrorAfter(sOk[p], t, sReason[p])
        /\ marker' = MarkerAfter(sOk[p], t)
        /\ syncLog' = AppendLine(syncLog,
                LogEntry(IF sOk[p] THEN "Complete" ELSE "Failed", sReason[p]))
    /\ sPc' = [sPc EXCEPT ![p] = "release"]
    /\ UNCHANGED <<envVars, lockHeld,
                   mPc, lPc, sReason, sOk, sRclone, sinceForced, waited,
                   shuttingDown, gateway, ticks, writes, retryVars, restoreVars, callVars>>

\* Lines 652-659: rmdir "$SYNC_LOCK_DIR" and the return.
SyncRelease(p) ==
    /\ sPc[p] = "release"
    /\ lockHeld' = FALSE
    /\ Returned(p, IF sOk[p] THEN 0 ELSE 1)
    /\ UNCHANGED <<envVars, marker, lastSync, lastSyncError, syncLog, mPc,
                   waited, shuttingDown, gateway, ticks, writes, retryVars, restoreVars, callVars>>

(***************************************************************************)
(* start_sync_loop and its background subshell                             *)
(***************************************************************************)

\* Lines 766-787: start_sync_loop forks the subshell when the credentials are
\* set, and the gateway is started right after.
StartSyncLoop ==
    /\ mPc = "trap_set"
    /\ lPc' = IF r2_configured THEN "init" ELSE lPc
    /\ gateway' = "running"
    /\ mPc' = "wait"
    /\ UNCHANGED <<envVars, recordVars, sPc, sReason, sOk, sRclone, sinceForced, waited, shuttingDown, ticks, writes, retryVars, restoreVars, callVars>>

\* Lines 673-674: touch "$SYNC_MARKER_FILE"; last_forced_sync_epoch=$(date +%s).
LoopInit ==
    /\ lPc = "init"
    /\ marker' = clock
    /\ sinceForced' = 0
    /\ lPc' = "sleep"
    /\ UNCHANGED <<envVars, lastSync,
                   lastSyncError, syncLog, lockHeld, mPc, sPc, sReason, sOk, sRclone,
                   waited, shuttingDown, gateway, ticks, writes, retryVars, restoreVars, callVars>>

\* sleep lasts the scan interval or, the container held up, much longer.
SleepSeconds == {SYNC_SCAN_INTERVAL_SECONDS, SYNC_FORCE_INTERVAL_SECONDS}

\* Line 690: $((now_epoch - last_forced_sync_epoch)) -ge the force interval.
ForceDue(elapsed) == elapsed >= SYNC_FORCE_INTERVAL_SECONDS

\* The loop uses its two epochs only through their difference, and that only
\* against the force interval: the difference is kept, up to the interval.
Elapsed(d) ==
    IF sinceForced + d >= SYNC_FORCE_INTERVAL_SECONDS
    THEN SYNC_FORCE_INTERVAL_SECONDS
    ELSE sinceForced + d

Reason(changed, forceDue) ==
    IF changed /\ forceDue THEN "change+periodic-5m"
    ELSE IF forceDue THEN "periodic-5m"
    ELSE "change-detected"

\* Lines 677-707 up to the call of sync_once: sleep, scan, decide.
LoopTick ==
    /\ lPc = "sleep"
    /\ ticks < MaxTicks
    /\ ticks' = ticks + 1
    /\ \E d \in SleepSeconds :
        /\ sinceForced' = Elapsed(d)
        /\ LET changed == ChangedFiles # {}
               forceDue == ForceDue(Elapsed(d))
           IN IF changed \/ forceDue
              THEN /\ sReason' = [sReason EXCEPT !["loop"] = Reason(changed, forceDue)]
                   /\ sPc' = [sPc EXCEPT !["loop"] = "lock"]
                   /\ lPc' = "sync"
              ELSE UNCHANGED <<sReason, sPc, lPc>>
    /\ UNCHANGED <<r2, clock, mtime, wsDir, skillsDir, remote, recordVars,
                   mPc, sOk, sRclone, waited, shuttingDown, gateway,
                   writes, retryVars, restoreVars, callVars>>

(***************************************************************************)
(* The main shell: gateway start, exit path, shutdown handler              *)
(***************************************************************************)

\* kill -TERM of a subshell: it stops where it is, whatever it holds.
KilledSync_Spared(p) == sPc[p]

KilledSync(p) == IF sPc[p] \in {"idle", "done"} THEN sPc[p] ELSE "killed"

\* stop_sync_loop (lines 714-720). A killed process takes its shell
\* variables with it.
Kill(p) ==
    /\ sPc' = [sPc EXCEPT ![p] = KilledSync(p)]
    /\ sReason' = [sReason EXCEPT ![p] = "manual"]
    /\ sOk' = [sOk EXCEPT ![p] = TRUE]
    /\ sRclone' = [sRclone EXCEPT ![p] = 0]

StopSyncLoop ==
    /\ lPc' = IF lPc = "none" THEN "none" ELSE "dead"
    /\ sinceForced' = 0
    /\ Kill("loop")

\* Lines 789-794: the gateway ends by itself, wait returns, the loop is
\* stopped and the script exits.
GatewayExits ==
    /\ mPc = "wait"
    /\ gateway = "running"
    /\ gateway' = "exited"
    /\ StopSyncLoop
    /\ mPc' = "exited"
    /\ UNCHANGED <<envVars, recordVars, waited, shuttingDown,
                   ticks, writes, retryVars, restoreVars, callVars>>

\* Line 764: the positions of the main shell at which its trap is installed
\* and the shell has not exited.
TrapArmed == {"trap_set", "wait", "sh_wait", "sh_kill_gateway", "sh_wait_gateway"}

\* Lines 743-746: the test of SHUTTING_DOWN.
Reentered_Never == FALSE

Reentered == shuttingDown

\* TERM or INT reaches the main shell: shutdown_handler up to the fork of the
\* shutdown sync (lines 742-752, 722-726). Without credentials
\* run_shutdown_sync_with_timeout returns at once and stop_sync_loop follows.
ShutdownBegin ==
    /\ mPc \in TrapArmed
    /\ ~Reentered
    /\ shuttingDown' = TRUE
    /\ IF r2_configured
       THEN /\ sPc' = [sPc EXCEPT !["shutdown"] = "lock"]
            /\ sReason' = [sReason EXCEPT !["shutdown"] = "shutdown"]
            /\ waited' = 0
            /\ mPc' = "sh_wait"
            /\ UNCHANGED <<lPc, sOk, sRclone, sinceForced>>
       ELSE /\ StopSyncLoop
            /\ mPc' = "sh_kill_gateway"
            /\ UNCHANGED waited
    /\ UNCHANGED <<envVars, recordVars, gateway, ticks, writes,
                   retryVars, restoreVars, callVars>>

\* The wait loop (lines 728-739) and stop_sync_loop after it (line 754). A
\* turn that finds the sync alive and the bound not reached sleeps a second
\* and counts it; nothing else changes, so these turns are taken together
\* with the turn that ends the loop: the one that finds the sync gone, or the
\* one that finds waited at the bound, logs the timeout and kills the sync.
ShutdownPoll ==
    /\ mPc = "sh_wait"
    /\ IF sPc["shutdown"] # "done"
       THEN /\ waited' = SHUTDOWN_TIMEOUT_SECONDS
            /\ syncLog' = AppendLine(syncLog, LogEntry("Shutdown sync timed out", "shutdown"))
            /\ lPc' = IF lPc = "none" THEN "none" ELSE "dead"
            /\ sinceForced' = 0
            /\ sPc' = [p \in Callers |-> KilledSync(p)]
            /\ sReason' = [p \in Callers |-> "manual"]
            /\ sOk' = [p \in Callers |-> TRUE]
            /\ sRclone' = [p \in Callers |-> 0]
       ELSE /\ StopSyncLoop
            /\ UNCHANGED <<waited, syncLog>>
    /\ mPc' = "sh_kill_gateway"
    /\ UNCHANGED <<envVars, marker, lastSync, lastSyncError, lockHeld,
                   shuttingDown, gateway, ticks,
                   writes, retryVars, restoreVars, callVars>>

\* Lines 756-757: TERM to the gateway if there is one alive, and the start of
\* the wait for it; without one, exit 0 (line 761).
ShutdownKillGateway ==
    /\ mPc = "sh_kill_gateway"
    /\ IF gateway = "running"
       THEN gateway' = "signalled" /\ mPc' = "sh_wait_gateway"
       ELSE gateway' = gateway /\ mPc' = "exited"
    /\ UNCHANGED <<envVars, recordVars, lPc, sPc, sReason, sOk, sRclone,
                   sinceForced, waited, shuttingDown, ticks, writes, retryVars,
                   restoreVars, callVars>>

\* The gateway ends after its TERM; wait (line 758) returns and the handler
\* exits with 0 (line 761). What a gateway does after the script is gone is
\* not followed.
GatewayTerminates ==
    /\ mPc = "sh_wait_gateway"
    /\ gateway = "signalled"
    /\ gateway' = "exited"
    /\ mPc' = "exited"
    /\ UNCHANGED <<envVars, recordVars, lPc, sPc, sReason, sOk, sRclone,
                   sinceForced, waited, shuttingDown, ticks, writes, retryVars,
                   restoreVars, callVars>>

\* TERM or INT reaches the main shell again while shutdown_handler runs: bash
\* runs the trap between two commands of the running handler, the new
\* invocation returns at line 744, and the running handler goes on. A wait
\* builtin in progress returns at once when a trapped signal arrives, so the
\* wait for the gateway (line 758) ends there, `|| true` takes its status and
\* the handler exits with 0 (line 761). The other commands of the handler
\* (kill -0, sleep 1, kill) are not cut short.
WaitInterrupted_Resumed(pc) == pc

WaitInterrupted(pc) == IF pc = "sh_wait_gateway" THEN "exited" ELSE pc

ShutdownAgain ==
    /\ mPc \in TrapArmed
    /\ Reentered
    /\ mPc' = WaitInterrupted(mPc)
    /\ UNCHANGED <<envVars, recordVars, loopVars, retryVars, restoreVars, callVars>>

SyncOnce == \E p \in Callers : SyncTryLock(p) \/ SyncCopy(p) \/ SyncRecord(p) \/ SyncRelease(p)

SyncNext ==
    \/ WriteFile
    \/ SyncOnce
    \/ StartSyncLoop \/ LoopInit \/ LoopTick
    \/ GatewayExits
    \/ ShutdownBegin \/ ShutdownPoll \/ ShutdownKillGateway
    \/ GatewayTerminates \/ ShutdownAgain

(***************************************************************************)
(* restore_from_r2                                                         *)
(***************************************************************************)

\* Runs of the script in one container.
MaxRestoreRuns == 2

NoRestoreStatus == <<>>

\* write_restore_status (lines 44-57), less the timestamp.
write_restore_status(state, detail) == <<[state |-> state, detail |-> detail]>>

\* dir_has_meaningful_files (lines 135-146) on the workspace, with the two
\* exclusions of line 153, and on the skills directory.
WorkspaceHasMeaningfulFiles ==
    wsDir /\ \E f \in Files : InWorkspaceDir(f) /\ ~InNodeModulesOrGit(f) /\ Exists(f)

SkillsHasMeaningfulFiles ==
    skillsDir /\ \E f \in Files : InSkillsDir(f) /\ Exists(f)

local_state_exists_ConfigOnly == Exists(CONFIG_FILE)

local_state_exists ==
    \/ Exists(CONFIG_FILE)
    \/ WorkspaceHasMeaningfulFiles
    \/ SkillsHasMeaningfulFiles

\* What rclone ls does: it lists the remote path, or fails with a message
\* that the pattern of line 194 takes for "not found", or fails otherwise.
LsResults == {"listed", "not_found", "failed"}

\* probe_r2_entries (lines 164-198): has tells whether the path has entries.
probe_r2_entries(has, ls) ==
    IF ls = "listed" THEN (IF has THEN "exists" ELSE "missing")
    ELSE IF ls = "not_found" THEN "missing"
    ELSE "error"

\* What rclone copy does: all is copied; it fails after copying; it fails
\* before copying anything.
CopyResults == {"ok", "partial", "nothing"}

RemoteHas(x) == \E f \in CopiedTo(x) : remote[x][f] > 0

Label(x) ==
    CASE x = "openclaw" -> "Config"
      [] x = "workspace" -> "Workspace"
      [] x = "skills" -> "Skills"
      [] x = "legacy" -> "Legacy config"

\* The path each probe lists (lines 234, 242, 268, 284).
ProbedPath(x) ==
    CASE x = "openclaw" -> "openclaw/openclaw.json"
      [] x = "legacy" -> "clawdbot/clawdbot.json"
      [] x = "workspace" -> "workspace/"
      [] x = "skills" -> "skills/"

NextStage(x) ==
    CASE x = "openclaw" -> "workspace"
      [] x = "legacy" -> "workspace"
      [] x = "workspace" -> "skills"
      [] x = "skills" -> "finish"

\* The sync engine and its records, before anything of it has run.
SyncNotStarted ==
    /\ marker = 0 /\ lastSync = 0 /\ lastSyncError = NoSyncError
    /\ syncLog = <<>> /\ lockHeld = FALSE
    /\ mPc = "boot" /\ lPc = "none"
    /\ sPc = [p \in Callers |-> "idle"]
    /\ sReason = [p \in Callers |-> "manual"]
    /\ sOk = [p \in Callers |-> TRUE]
    /\ sRclone = [p \in Callers |-> 0]
    /\ sinceForced = 0 /\ waited = 0
    /\ shuttingDown = FALSE /\ gateway = "none"
    /\ ticks = 0 /\ writes = 0

\* The state in which restore_from_r2 has not run (the other specifications).
RestoreIdle ==
    /\ rsPc = "idle" /\ rRuns = 0
    /\ restoreStatus = NoRestoreStatus /\ restoreErrorLog = {}
    /\ rProbes = 0 /\ rCopies = 0 /\ restoredAny = FALSE
    /\ legacy = FALSE /\ rReturn = 0
    /\ forceRestore = FALSE
    /\ rProbe = "none" /\ rCopy = "none"
    /\ rWrites = 0
    /\ rProbeLog = <<>> /\ legacyPrimary = FALSE /\ legacyLocal = FALSE

\* A container at boot: any local files, any backup in the bucket.
RestoreInit ==
    /\ r2 \in BOOLEAN
    /\ clock = 1
    /\ wsDir \in BOOLEAN /\ skillsDir \in BOOLEAN
    /\ skillsDir => wsDir
    /\ mtime \in [Files -> {0, 1}]
    /\ \A f \in Files : Exists(f) => DirExists(f)
    /\ remote \in [Prefixes -> UNION {[CopiedTo(x) -> {0, 1}] : x \in Prefixes}]
    /\ \A x \in Prefixes : DOMAIN remote[x] = CopiedTo(x)
    /\ legacy \in BOOLEAN
    /\ SyncNotStarted
    /\ rsPc = "idle" /\ rRuns = 0
    /\ restoreStatus = NoRestoreStatus /\ restoreErrorLog = {}
    /\ rProbes = 0 /\ rCopies = 0 /\ restoredAny = FALSE
    /\ rReturn = 0
    /\ forceRestore = FALSE
    /\ rProbe = "none" /\ rCopy = "none"
    /\ rWrites = 0
    /\ rProbeLog = <<>> /\ legacyLocal = FALSE
    /\ legacyPrimary \in BOOLEAN /\ (legacyPrimary => legacy)

\* return of restore_from_r2 with the given status.
RestoreReturns(status) ==
    /\ rsPc' = "returned"
    /\ rReturn' = status

\* Where restore_from_r2 goes after a failure at stage x: return 1.
FailureStage_Continue(x) == NextStage(x)

FailureStage(x) == "returned"

\* record_restore_failure (lines 59-63), then return 1.
RestoreFails(x, detail, log) ==
    /\ restoreErrorLog' = log \cup {"failure"}
    /\ restoreStatus' = write_restore_status("failed", detail)
    /\ rWrites' = rWrites + 1
    /\ rsPc' = FailureStage(x)
    /\ rReturn' = 1

\* The script boots (line 39 removes the restore error log) and calls
\* restore_from_r2: lines 216-228. It boots in a fresh container, or again in
\* the same container after an earlier run of it has ended; the new run is a
\* new shell with no loop, no gateway and no sync of its own yet.
RestoreBegin ==
    /\ rsPc \in {"idle", "returned"}
    /\ mPc \in {"boot", "exited"}
    /\ mPc' = "restore"
    /\ lPc' = "none" /\ gateway' = "none" /\ shuttingDown' = FALSE
    /\ sPc' = [p \in Callers |-> "idle"]
    /\ sReason' = [p \in Callers |-> "manual"]
    /\ sOk' = [p \in Callers |-> TRUE]
    /\ sRclone' = [p \in Callers |-> 0]
    /\ sinceForced' = 0 /\ waited' = 0
    /\ rRuns < MaxRestoreRuns
    /\ rRuns' = rRuns + 1
    /\ restoreErrorLog' = {}
    /\ rProbes' = 0 /\ rCopies' = 0 /\ restoredAny' = FALSE
    /\ rProbe' = "none" /\ rCopy' = "none"
    /\ rProbeLog' = <<>>
    /\ IF ~r2_configured
       THEN /\ restoreStatus' = write_restore_status("not_configured",
                                    "R2 credentials not configured")
            /\ rWrites' = 1
            /\ RestoreReturns(0)
       ELSE IF local_state_exists
       THEN /\ restoreStatus' = write_restore_status("skipped_local",
                                    "Local state exists, skipped remote restore")
            /\ rWrites' = 1
            /\ RestoreReturns(0)
       ELSE /\ rsPc' = "openclaw"
            /\ rWrites' = 0
            /\ UNCHANGED <<restoreStatus, rReturn>>
    /\ UNCHANGED <<envVars, recordVars, ticks, writes, legacy, legacyPrimary,
                   legacyLocal, forceRestore, retryVars, callVars>>

\* copy_r2_prefix_to_local (lines 200-213) into the local tree of prefix x:
\* mkdir -p of the tree, then rclone copy, which keeps modification times.
DirsAfterCopy(x) ==
    /\ wsDir' = (wsDir \/ x \in {"workspace", "skills"})
    /\ skillsDir' = (skillsDir \/ x = "skills")

FilesAfterCopy(x, cp) ==
    [f \in Files |->
        IF cp # "nothing" /\ f \in CopiedTo(x) /\ remote[x][f] > 0
        THEN remote[x][f] ELSE mtime[f]]

\* One of the three probe-and-copy blocks (lines 234-296); the config block
\* goes on to the legacy probe when openclaw/openclaw.json is missing.
RestorePrefix(x) ==
    /\ rsPc = x
    /\ rProbes' = rProbes + 1
    /\ \E ls \in LsResults, cp \in CopyResults :
        LET probe == probe_r2_entries(RemoteHas(x), ls) IN
        /\ rProbe' = probe
        /\ rProbeLog' = Append(rProbeLog, [path |-> ProbedPath(x), answer |-> probe])
        /\ CASE probe = "exists" ->
                /\ rCopies' = rCopies + 1
                /\ rCopy' = cp
                /\ DirsAfterCopy(x)
                /\ mtime' = FilesAfterCopy(x, cp)
                /\ IF cp = "ok"
                   THEN /\ restoredAny' = TRUE
                        /\ restoreErrorLog' = restoreErrorLog \cup {"rclone output"}
                        /\ rsPc' = NextStage(x)
                        /\ UNCHANGED <<restoreStatus, rReturn, rWrites>>
                   ELSE /\ RestoreFails(x, "Restore failed for " \o Label(x),
                                        restoreErrorLog \cup {"rclone output"})
                        /\ UNCHANGED restoredAny
          [] probe = "missing" ->
                /\ rsPc' = IF x = "openclaw" THEN "legacy" ELSE NextStage(x)
                /\ UNCHANGED <<rCopies, rCopy, wsDir, skillsDir, mtime, restoredAny,
                               restoreErrorLog, restoreStatus, rReturn, rWrites>>
          [] probe = "error" ->
                /\ RestoreFails(x, Label(x) \o " probe failed", restoreErrorLog)
                /\ UNCHANGED <<rCopies, rCopy, wsDir, skillsDir, mtime, restoredAny>>
    /\ UNCHANGED <<r2, clock, remote, recordVars, procVars, rRuns, legacy,
                   legacyPrimary, legacyLocal, forceRestore, retryVars, callVars>>

\* Line 246: the copied clawdbot.json is moved to CONFIG_FILE when the
\* latter is not there.
MigratesLegacy_Always(primaryExists) == TRUE

MigratesLegacy(primaryExists) == ~primaryExists

\* Lines 241-258: the legacy probe; its copy lands in the config directory,
\* clawdbot.json and, if the prefix holds one, openclaw.json; after a
\* complete copy clawdbot.json is renamed to openclaw.json unless an
\* openclaw.json is there.
RestoreLegacy ==
    /\ rsPc = "legacy"
    /\ rProbes' = rProbes + 1
    /\ \E ls \in LsResults, cp \in CopyResults :
        LET probe == probe_r2_entries(legacy, ls)
            primaryAfterCopy == Exists(CONFIG_FILE) \/ (cp # "nothing" /\ legacyPrimary)
        IN
        /\ rProbe' = probe
        /\ rProbeLog' = Append(rProbeLog, [path |-> ProbedPath("legacy"), answer |-> probe])
        /\ CASE probe = "exists" ->
                /\ rCopies' = rCopies + 1
                /\ rCopy' = cp
                /\ IF cp = "ok"
                   THEN /\ mtime' = [mtime EXCEPT ![CONFIG_FILE] = 1]
                        /\ legacyLocal' = ~MigratesLegacy(primaryAfterCopy)
                        /\ restoredAny' = TRUE
                        /\ restoreErrorLog' = restoreErrorLog \cup {"rclone output"}
                        /\ rsPc' = NextStage("legacy")
                        /\ UNCHANGED <<restoreStatus, rReturn, rWrites>>
                   ELSE /\ RestoreFails("legacy", "Restore failed for " \o Label("legacy"),
                                        restoreErrorLog \cup {"rclone output"})
                        /\ mtime' = IF primaryAfterCopy
                                    THEN [mtime EXCEPT ![CONFIG_FILE] = 1] ELSE mtime
                        /\ legacyLocal' = (legacyLocal \/ cp # "nothing")
                        /\ UNCHANGED restoredAny
          [] probe = "missing" ->
                /\ rsPc' = NextStage("legacy")
                /\ UNCHANGED <<rCopies, rCopy, mtime, restoredAny, restoreErrorLog,
                               restoreStatus, rReturn, rWrites, legacyLocal>>
          [] probe = "error" ->
                /\ RestoreFails("legacy", Label("legacy") \o " probe failed", restoreErrorLog)
                /\ UNCHANGED <<rCopies, rCopy, mtime, restoredAny, legacyLocal>>
    /\ UNCHANGED <<r2, clock, wsDir, skillsDir, remote, recordVars, procVars,
                   rRuns, legacy, legacyPrimary, forceRestore, retryVars, callVars>>

\* Lines 299-303: the record written when every block went through.
FinalStatus_Restored(any) ==
    write_restore_status("restored", "R2 backup restored into empty local state")

FinalStatus(any) ==
    IF any
    THEN write_restore_status("restored", "R2 backup restored into empty local state")
    ELSE write_restore_status("fresh", "No R2 backup found")

\* Lines 298-305.
RestoreFinish ==
    /\ rsPc = "finish"
    /\ restoreStatus' = FinalStatus(restoredAny)
    /\ rWrites' = rWrites + 1
    /\ RestoreReturns(0)
    /\ UNCHANGED <<envVars, recordVars, procVars, rRuns, restoreErrorLog, rProbes,
                   rCopies, restoredAny, legacy, forceRestore, rProbe, rCopy,
                   rProbeLog, legacyPrimary, legacyLocal, retryVars, callVars>>

\* Line 11 (set -e) and line 308: restore_from_r2 is called as a plain
\* command, so a return status other than 0 ends the script there; after
\* status 0 the script configures and installs its trap (lines 310-764).
AfterRestore(status) == IF status = 0 THEN "trap_set" ELSE "exited"

\* Line 308 calls restore_from_r2 in the foreground: the script goes on when
\* the function has returned.
RestoreReturned_Background == rsPc # "idle"

RestoreReturned == rsPc = "returned"

ScriptAfterRestore ==
    /\ mPc = "restore"
    /\ RestoreReturned
    /\ mPc' = AfterRestore(rReturn)
    /\ UNCHANGED <<envVars, recordVars, loopVars, restoreVars, retryVars, callVars>>

\* adminApi.post('/storage/restore') (sandbox-alarm.ts:452-500) with the
\* credentials set: touch of the marker; the gateway is killed and the start
\* script is run again (the next RestoreBegin). Without the credentials the
\* handler answers 400 and changes nothing.
PostStorageRestore ==
    /\ r2
    /\ rsPc \in {"idle", "returned"}
    /\ ~forceRestore
    /\ forceRestore' = TRUE
    /\ UNCHANGED <<envVars, recordVars, procVars, rsPc, rRuns, restoreStatus,
                   restoreErrorLog, rProbes, rCopies, restoredAny, legacy, rReturn,
                   rProbe, rCopy, rWrites, rProbeLog, legacyPrimary, legacyLocal,
                   retryVars, callVars>>

\* The script from boot to exit: the restore, then the start of the loop and
\* of the gateway, and the end of the script by the gateway's exit or by a
\* signal with its shutdown sync. The ticks of the loop are the subject of
\* SpecSync; here the forked loop is not scheduled before the script ends.
RestoreNext ==
    \/ RestoreBegin
    \/ ScriptAfterRestore
    \/ PostStorageRestore
    \/ \E x \in Prefixes : RestorePrefix(x)
    \/ RestoreLegacy
    \/ RestoreFinish
    \/ StartSyncLoop
    \/ GatewayExits
    \/ ShutdownBegin
    \/ SyncOnce
    \/ ShutdownPoll
    \/ ShutdownKillGateway
    \/ GatewayTerminates
    \/ ShutdownAgain

(***************************************************************************)
(* waitForProcess (src/src/gateway/utils.ts:12-36)                         *)
(***************************************************************************)

\* Largest timeoutMs and largest explicit pollIntervalMs tried.
MaxTimeoutMs == 5
MaxPollIntervalMs == 2

\* The default of the third parameter (line 15).
DEFAULT_POLL_INTERVAL_MS == 500

PollIntervals == (1..MaxPollIntervalMs) \cup {DEFAULT_POLL_INTERVAL_MS}

\* Status strings a process reports; "killed" stands for any string outside
\* the documented ones.
DocumentedTerminal == {"completed", "failed", "error"}

Statuses == {"starting", "running", "killed"} \cup DocumentedTerminal

\* Line 17.
isInProgress_Undocumented(status) == status \notin DocumentedTerminal

isInProgress(status) == status = "running" \/ status = "starting"

\* Line 18: Math.ceil(timeoutMs / pollIntervalMs), pollIntervalMs > 0.
MaxAttemptsOf_Floor(t, p) == t \div p

MaxAttemptsOf(t, p) == IF t % p = 0 THEN t \div p ELSE (t \div p) + 1

\* Lines 20 and 25: proc.getStatus ? await proc.getStatus() : proc.status,
\* read while the process itself is in status live.
ReadStatus(live) == IF proc.hasGetStatus THEN live ELSE proc.status

QueriesOfRead == IF proc.hasGetStatus THEN 1 ELSE 0

\* Line 21, second conjunct of the loop condition.
MayPoll_OneLess(n, max) == n + 1 < max

MayPoll(n, max) == n < max

\* Line 21: the condition of the loop.
LoopCondition_IgnoresStatus(status, n, max) == MayPoll(n, max)

LoopCondition(status, n, max) == isInProgress(status) /\ MayPoll(n, max)

\* Lines 30-32: the Error and the values embedded in its message.
TimeoutError(t, status, n) ==
    [message |-> "Process did not complete within", timeoutMs |-> t,
     status |-> status, attempts |-> n]

NoWaitError == [message |-> "none"]

\* No call of waitForProcess (the other specifications).
WaitIdle ==
    /\ wPc = "idle"
    /\ proc = [status |-> "running", hasGetStatus |-> TRUE]
    /\ timeoutMs = 0 /\ pollIntervalMs = DEFAULT_POLL_INTERVAL_MS
    /\ maxAttempts = 0 /\ wAttempts = 0
    /\ currentStatus = "none" /\ wLive = "running"
    /\ wSeen = <<>> /\ wQueries = 0 /\ wSleeps = 0
    /\ wResult = "none" /\ wError = NoWaitError

\* A call waitForProcess(proc, timeoutMs, pollIntervalMs) about to run.
WaitInit ==
    /\ wPc = "called"
    /\ proc \in [status : Statuses, hasGetStatus : BOOLEAN]
    /\ timeoutMs \in 0..MaxTimeoutMs
    /\ pollIntervalMs \in PollIntervals
    /\ maxAttempts = 0 /\ wAttempts = 0
    /\ currentStatus = "none" /\ wLive \in Statuses
    /\ wSeen = <<>> /\ wQueries = 0 /\ wSleeps = 0
    /\ wResult = "none" /\ wError = NoWaitError

\* One read of the status (lines 20, 25).
Read ==
    \E live \in Statuses :
        /\ wLive' = live
        /\ currentStatus' = ReadStatus(live)
        /\ wSeen' = Append(wSeen, ReadStatus(live))
        /\ wQueries' = wQueries + QueriesOfRead

\* Lines 18-20.
WaitFirstQuery ==
    /\ wPc = "called"
    /\ maxAttempts' = MaxAttemptsOf(timeoutMs, pollIntervalMs)
    /\ wAttempts' = 0
    /\ Read
    /\ wPc' = "loop"
    /\ UNCHANGED <<proc, timeoutMs, pollIntervalMs, wSleeps, wResult, wError,
                   retryVars, proxyVars, syncVars, restoreVars,
                   cliVars, adminVars, alarmVars>>

\* Lines 21-27: one turn of the loop.
WaitPoll ==
    /\ wPc = "loop"
    /\ LoopCondition(currentStatus, wAttempts, maxAttempts)
    /\ wSleeps' = wSleeps + 1
    /\ Read
    /\ wAttempts' = wAttempts + 1
    /\ UNCHANGED <<wPc, proc, timeoutMs, pollIntervalMs, maxAttempts, wResult,
                   wError, retryVars, proxyVars, syncVars, restoreVars,
                   cliVars, adminVars, alarmVars>>

\* Lines 29-33.
WaitThrow ==
    /\ wPc = "loop"
    /\ ~(LoopCondition(currentStatus, wAttempts, maxAttempts))
    /\ isInProgress(currentStatus)
    /\ wError' = TimeoutError(timeoutMs, currentStatus, wAttempts)
    /\ wPc' = "rejected"
    /\ UNCHANGED <<proc, timeoutMs, pollIntervalMs, maxAttempts, wAttempts,
                   currentStatus, wLive, wSeen, wQueries, wSleeps, wResult,
                   retryVars, proxyVars, syncVars, restoreVars,
                   cliVars, adminVars, alarmVars>>

\* Line 35.
WaitReturn ==
    /\ wPc = "loop"
    /\ ~(LoopCondition(currentStatus, wAttempts, maxAttempts))
    /\ ~isInProgress(currentStatus)
    /\ wResult' = currentStatus
    /\ wPc' = "resolved"
    /\ UNCHANGED <<proc, timeoutMs, pollIntervalMs, maxAttempts, wAttempts,
                   currentStatus, wLive, wSeen, wQueries, wSleeps, wError,
                   retryVars, proxyVars, syncVars, restoreVars,
                   cliVars, adminVars, alarmVars>>

WaitNext == WaitFirstQuery \/ WaitPoll \/ WaitThrow \/ WaitReturn

(***************************************************************************)
(* evaluateCliOutcome (src/src/sandbox-alarm.ts:91-141)                    *)
(***************************************************************************)

\* Longest stdout and stderr tried, and longest keyword list.
MaxOutputLen == 1
MaxKeywords == 1

\* Text is a sequence of characters; "\n" is the white space among them.
Chars == {"a", "A", "b", "\n"}

Whitespace == {"\n"}

Texts(n) == UNION {[1..k -> Chars] : k \in 0..n}

\* The keywords tried: "ab", "A" and the empty string.
KeywordPool == {<<"a", "b">>, <<"A">>, <<>>}

KeywordLists == UNION {[1..k -> KeywordPool] : k \in 0..MaxKeywords}

\* exitCode?: number, which a process object may also hold as null.
ExitCodes ==
    {[kind |-> "undefined", value |-> 0], [kind |-> "null", value |-> 0],
     [kind |-> "number", value |-> 0], [kind |-> "number", value |-> 1]}

CliStatuses == {"completed", "failed", "running"}

\* String.prototype.toLowerCase.
LowerChar(c) == IF c = "A" THEN "a" ELSE c

toLowerCase(text) == [i \in 1..Len(text) |-> LowerChar(text[i])]

\* String.prototype.includes.
includes(text, part) ==
    \E i \in 0..(Len(text) - Len(part)) :
        \A j \in 1..Len(part) : text[i + j] = part[j]

\* String.prototype.trim.
RECURSIVE trimStart(_)
trimStart(text) ==
    IF text # <<>> /\ Head(text) \in Whitespace THEN trimStart(Tail(text)) ELSE text

RECURSIVE trimEnd(_)
trimEnd(text) ==
    IF text # <<>> /\ text[Len(text)] \in Whitespace
    THEN trimEnd(SubSeq(text, 1, Len(text) - 1))
    ELSE text

trim(text) == trimEnd(trimStart(text))

\* Line 123: `${stdout}\n${stderr}`.toLowerCase().
combinedOutput_Concatenated(stdout, stderr) == toLowerCase(stdout \o stderr)

combinedOutput(stdout, stderr) == toLowerCase(stdout \o <<"\n">> \o stderr)

\* Lines 125-127.
hasKeyword(keywords, stdout, stderr) ==
    \E k \in 1..Len(keywords) :
        includes(combinedOutput(stdout, stderr), toLowerCase(keywords[k]))

\* Lines 128-129.
completedWithoutExitCode(status, exitCode) ==
    status = "completed" /\ exitCode.kind \in {"undefined", "null"}

\* Line 130.
success_NoKeyword(status, exitCode, keywords, stdout, stderr) ==
    \/ (exitCode.kind = "number" /\ exitCode.value = 0)
    \/ completedWithoutExitCode(status, exitCode)

success(status, exitCode, keywords, stdout, stderr) ==
    \/ (exitCode.kind = "number" /\ exitCode.value = 0)
    \/ completedWithoutExitCode(status, exitCode)
    \/ hasKeyword(keywords, stdout, stderr)

\* formatCliFailureMessage (lines 91-108).
formatCliFailureMessage_StdoutFirst(status, exitCode, stdout, stderr) ==
    IF trim(stdout) # <<>> THEN [kind |-> "text", text |-> trim(stdout)]
    ELSE IF trim(stderr) # <<>> THEN [kind |-> "text", text |-> trim(stderr)]
    ELSE IF exitCode.kind = "number"
    THEN [kind |-> "Command failed", status |-> status, exitCode |-> exitCode.value]
    ELSE [kind |-> "Command failed", status |-> status]

formatCliFailureMessage(status, exitCode, stdout, stderr) ==
    IF trim(stderr) # <<>> THEN [kind |-> "text", text |-> trim(stderr)]
    ELSE IF trim(stdout) # <<>> THEN [kind |-> "text", text |-> trim(stdout)]
    ELSE IF exitCode.kind = "number"
    THEN [kind |-> "Command failed", status |-> status, exitCode |-> exitCode.value]
    ELSE [kind |-> "Command failed", status |-> status]

NoOutcome == [success |-> FALSE, status |-> "none"]

\* No call of evaluateCliOutcome (the other specifications).
CliIdle ==
    /\ cPc = "idle"
    /\ cProc = [status |-> "running", exitCode |-> [kind |-> "undefined", value |-> 0],
                hasGetStatus |-> TRUE]
    /\ cLive = "running"
    /\ logs = [stdout |-> <<>>, stderr |-> <<>>]
    /\ successKeywords = <<>>
    /\ outcome = NoOutcome

\* A call evaluateCliOutcome(proc, successKeywords) about to run. An absent
\* logs.stdout or logs.stderr is read as the empty text (lines 120-121) and
\* is tried as the empty text.
CliInit ==
    /\ cPc = "called"
    /\ cProc \in [status : CliStatuses, exitCode : ExitCodes, hasGetStatus : BOOLEAN]
    /\ cLive \in CliStatuses
    /\ logs \in [stdout : Texts(MaxOutputLen), stderr : Texts(MaxOutputLen)]
    /\ successKeywords \in KeywordLists
    /\ outcome = NoOutcome

\* Lines 119-140.
EvaluateCliOutcome ==
    /\ cPc = "called"
    /\ LET stdout == logs.stdout
           stderr == logs.stderr
           status == IF cProc.hasGetStatus THEN cLive ELSE cProc.status
           ok == success(status, cProc.exitCode, successKeywords, stdout, stderr)
       IN  outcome' =
             IF ok
             THEN [success |-> TRUE, status |-> status, stdout |-> stdout,
                   stderr |-> stderr]
             ELSE [success |-> FALSE, status |-> status, stdout |-> stdout,
                   stderr |-> stderr,
                   error |-> formatCliFailureMessage(status, cProc.exitCode,
                                                     stdout, stderr)]
    /\ cPc' = "returned"
    /\ UNCHANGED <<cProc, cLive, logs, successKeywords, retryVars, proxyVars, syncVars,
                   restoreVars, waitVars, adminVars, alarmVars>>

CliNext == EvaluateCliOutcome

(***************************************************************************)
(* The storage routes of the admin API (src/src/sandbox-alarm.ts)          *)
(***************************************************************************)

\* The three bindings both routes test (lines 372-376, 455-459).
CredentialNames == <<"R2_ACCESS_KEY_ID", "R2_SECRET_ACCESS_KEY", "CF_ACCOUNT_ID">>

\* c.env: for each binding, whether it is set to a non-empty value.
WorkerEnvs == [{CredentialNames[i] : i \in 1..Len(CredentialNames)} -> BOOLEAN]

hasCredentials(e) ==
    e["R2_ACCESS_KEY_ID"] /\ e["R2_SECRET_ACCESS_KEY"] /\ e["CF_ACCOUNT_ID"]

\* Lines 378-381: the names not set, in the order they are tested.
RECURSIVE missingFrom(_, _)
missingFrom(e, i) ==
    IF i > Len(CredentialNames) THEN <<>>
    ELSE (IF e[CredentialNames[i]] THEN <<>> ELSE <<CredentialNames[i]>>)
         \o missingFrom(e, i + 1)

missing(e) == missingFrom(e, 1)

\* The files the routes name (lines 68-71).
LAST_SYNC_FILE == "/tmp/.last-sync"
LAST_SYNC_ERROR_FILE == "/tmp/.last-sync-error"
RESTORE_STATUS_FILE == "/tmp/.restore-status.json"
FORCE_RESTORE_MARKER_FILE == "/tmp/.force-r2-restore"

StatusFiles == <<LAST_SYNC_FILE, LAST_SYNC_ERROR_FILE, RESTORE_STATUS_FILE>>

\* A JSON text as its tokens: braces, keys and scalar values. A file that
\* does not exist reads as the empty text (cat ... || true, line 144).
Tok(t, v) == [t |-> t, v |-> v]
LBrace == Tok("{", "")
RBrace == Tok("}", "")
Key(k) == Tok("key", k)
JStr(s) == Tok("string", s)
JNum == Tok("number", "1")
JNull == Tok("null", "")
JJunk == Tok("junk", "")
Absent == Tok("absent", "")

Member(k, v) == IF v = Absent THEN <<>> ELSE <<Key(k), v>>

\* The text of an object with the three members, closed or cut short.
ObjectText(s, t, d, closed) ==
    <<LBrace>> \o Member("state", s) \o Member("timestamp", t) \o Member("detail", d)
    \o (IF closed THEN <<RBrace>> ELSE <<>>)

StateValues == {Absent, JStr("failed"), JStr("restored"), JNum}
TimestampValues == {Absent, JStr("t"), JNum}
DetailValues == {Absent, JStr("d"), JNum}

\* What RESTORE_STATUS_FILE may hold: nothing, text that is not JSON, a JSON
\* scalar, null, or an object (whole, or cut short as by a reader that
\* arrives during the write).
RestoreStatusTexts ==
    {<<>>, <<JJunk>>, <<JNull>>, <<JStr("failed")>>, <<JNum>>}
    \cup {ObjectText(s, t, d, closed) :
            s \in StateValues, t \in TimestampValues, d \in DetailValues,
            closed \in BOOLEAN}

LastSyncTexts == {<<>>, <<"a">>, <<"a", "\n">>}
LastSyncErrorTexts == {<<>>, <<"\n">>, <<"b">>, <<"\n", "b", "\n">>}

\* JSON.parse on the tokens: an object when the text is a closed sequence of
\* members, a scalar or null for a single value, else a SyntaxError.
IsObjectText(raw) ==
    /\ Len(raw) >= 2
    /\ raw[1] = LBrace
    /\ raw[Len(raw)] = RBrace
    /\ Len(raw) % 2 = 0
    /\ \A i \in 2..(Len(raw) - 1) :
         IF i % 2 = 0 THEN raw[i].t = "key"
                      ELSE raw[i].t \in {"string", "number", "null"}

\* parsed[k] of a parsed object: the value of the last member named k.
Property(raw, k) ==
    LET at == {i \in 2..(Len(raw) - 1) : raw[i] = Key(k)}
    IN  IF at = {} THEN Absent
        ELSE raw[(CHOOSE i \in at : \A j \in at : j <= i) + 1]

typeof(v) == IF v = Absent THEN "undefined" ELSE v.t

NullRestoreStatus == [isNull |-> TRUE, state |-> "", timestamp |-> "", detail |-> Absent]

\* parseRestoreStatus (lines 148-166): null for the empty text, for text
\* JSON.parse rejects, for null (whose property read throws), and for a value
\* whose state or timestamp is not a string; detail is kept when a string.
parseRestoreStatus(raw) ==
    IF raw = <<>> THEN NullRestoreStatus
    ELSE IF ~IsObjectText(raw) THEN NullRestoreStatus
    ELSE IF typeof(Property(raw, "state")) # "string"
            \/ typeof(Property(raw, "timestamp")) # "string"
         THEN NullRestoreStatus
    ELSE [isNull |-> FALSE,
          state |-> Property(raw, "state").v,
          timestamp |-> Property(raw, "timestamp").v,
          detail |-> IF typeof(Property(raw, "detail")) = "string"
                     THEN Property(raw, "detail") ELSE Absent]

\* readSandboxFile (lines 143-146): the trimmed stdout of cat, the empty
\* text for a file that does not exist.
readSandboxFile(text) == trim(text)

\* string | null.
Null == [isNull |-> TRUE, value |-> <<>>]
Str(text) == [isNull |-> FALSE, value |-> text]

\* Lines 395-403: a read that trims to the empty text leaves the null.
NonEmpty(text) == IF trim(text) = <<>> THEN Null ELSE Str(trim(text))

\* Line 411.
backupDegraded_ErrorOnly(configured, lastSyncErr, restore) ==
    configured /\ ~lastSyncErr.isNull

backupDegraded(configured, lastSyncErr, restore) ==
    configured /\ (~lastSyncErr.isNull \/ (~restore.isNull /\ restore.state = "failed"))

NoResponse == [status |-> 0]

\* No request to the storage routes (the other specifications).
Routes == {"GET /storage", "POST /storage/restore"}

AdminIdle ==
    /\ aPc = "idle"
    /\ aRequest = "GET /storage"
    /\ cenv = [n \in DOMAIN (CHOOSE e \in WorkerEnvs : TRUE) |-> FALSE]
    /\ sbFiles = [lastSync |-> <<>>, lastSyncError |-> <<>>, restoreStatus |-> <<>>]
    /\ aCalls = <<>>
    /\ aResponse = NoResponse

\* A worker with some of the bindings set, a container with some content in
\* the three status files, and one request about to arrive.
AdminInit ==
    /\ aPc = "ready"
    /\ aRequest \in Routes
    /\ cenv \in WorkerEnvs
    /\ sbFiles \in [lastSync : LastSyncTexts, lastSyncError : LastSyncErrorTexts,
                    restoreStatus : RestoreStatusTexts]
    /\ aCalls = <<>>
    /\ aResponse = NoResponse

\* readSandboxFile (lines 143-146) for each of the three files, in the order
\* Promise.all is given them (lines 389-393); failing: the reads whose
\* sandbox.exec rejects.
ReadCalls(failing) ==
    [i \in 1..Len(StatusFiles) |->
        [call |-> "cat", arg |-> StatusFiles[i], ok |-> i \notin failing]]

\* adminApi.get('/storage') (lines 370-424). The three reads are started
\* together; if any sandbox.exec rejects, the catch at line 406 leaves all
\* three results as they were initialised.
GetStorage ==
    /\ aPc = "ready"
    /\ aRequest = "GET /storage"
    /\ \E failing \in SUBSET (1..Len(StatusFiles)) :
         LET configured == hasCredentials(cenv)
             readOk == configured /\ failing = {}
             lastSync_ == IF readOk THEN NonEmpty(readSandboxFile(sbFiles.lastSync)) ELSE Null
             lastSyncError_ == IF readOk THEN NonEmpty(readSandboxFile(sbFiles.lastSyncError))
                               ELSE Null
             restore == IF readOk THEN parseRestoreStatus(sbFiles.restoreStatus)
                        ELSE NullRestoreStatus
         IN  /\ (~configured => failing = {})
             /\ aCalls' = IF configured THEN ReadCalls(failing) ELSE <<>>
             /\ aResponse' =
                  [status |-> 200,
                   configured |-> configured,
                   missing |-> missing(cenv),
                   lastSync |-> lastSync_,
                   restore |-> restore,
                   lastSyncError |-> lastSyncError_,
                   backupDegraded |-> backupDegraded(configured, lastSyncError_, restore)]
    /\ aPc' = "answered"
    /\ UNCHANGED <<aRequest, cenv, sbFiles, retryVars, proxyVars, syncVars, restoreVars, waitVars,
                   cliVars, alarmVars>>

Call(name, arg, ok) == [call |-> name, arg |-> arg, ok |-> ok]

\* What findExistingMoltbotProcessWithRetry may do: reject, resolve to null,
\* or resolve to the process.
FindOutcomes == {"rejects", "null", "process"}

\* Lines 476-484: the process found is killed, a rejection of kill is
\* logged, and two seconds are slept either way.
KillFound_Twice(found, killOk) ==
    IF found = "process"
    THEN <<Call("kill", "process", killOk), Call("kill", "process", killOk),
           Call("sleep", "2000", TRUE)>>
    ELSE <<>>

KillFound(found, killOk) ==
    IF found = "process"
    THEN <<Call("kill", "process", killOk), Call("sleep", "2000", TRUE)>>
    ELSE <<>>

\* Lines 486-489: ensureMoltbotGateway is called, its rejection is caught,
\* and the promise is handed to scheduleBackgroundTask, whose call of the
\* detached waitUntil may throw.
Restart(ensureOk, scheduleOk) ==
    <<Call("ensureMoltbotGateway", "", ensureOk),
      Call("scheduleBackgroundTask", "", scheduleOk)>>

\* adminApi.post('/storage/restore') (lines 452-500). Anything thrown
\* between lines 472 and 495, except by kill and by the promise of
\* ensureMoltbotGateway, ends the handler in the catch at line 496.
PostStorageRestoreRequest ==
    /\ aPc = "ready"
    /\ aRequest = "POST /storage/restore"
    /\ IF ~hasCredentials(cenv)
       THEN /\ aResponse' = [status |-> 400, success |-> FALSE,
                             error |-> "R2 storage is not configured"]
            /\ UNCHANGED <<aCalls, forceRestore>>
       ELSE \E touchOk \in BOOLEAN, found \in FindOutcomes, killOk \in BOOLEAN,
               ensureOk \in BOOLEAN, scheduleOk \in BOOLEAN :
              LET touch == <<Call("touch", FORCE_RESTORE_MARKER_FILE, touchOk)>>
                  find == <<Call("findExistingMoltbotProcessWithRetry", "",
                                 found # "rejects")>>
              IN  /\ forceRestore' = (forceRestore \/ touchOk)
                  /\ IF ~touchOk
                     THEN /\ aCalls' = touch
                          /\ aResponse' = [status |-> 500, success |-> FALSE]
                     ELSE IF found = "rejects"
                     THEN /\ aCalls' = touch \o find
                          /\ aResponse' = [status |-> 500, success |-> FALSE]
                     ELSE /\ aCalls' = touch \o find \o KillFound(found, killOk)
                                         \o Restart(ensureOk, scheduleOk)
                          /\ aResponse' =
                               IF scheduleOk
                               THEN [status |-> 200, success |-> TRUE,
                                     previousProcessId |-> found]
                               ELSE [status |-> 500, success |-> FALSE]
    /\ aPc' = "answered"
    /\ UNCHANGED <<aRequest, cenv, sbFiles, retryVars, proxyVars, syncVars, rsPc, rRuns,
                   restoreStatus, restoreErrorLog, rProbes, rCopies, restoredAny,
                   legacy, rReturn, rProbe, rCopy, rWrites, rProbeLog,
                   legacyPrimary, legacyLocal, waitVars, cliVars, alarmVars>>

AdminNext == GetStorage \/ PostStorageRestoreRequest

(***************************************************************************)
(* Sandbox.alarm (src/src/sandbox-alarm.ts)                                *)
(***************************************************************************)

MaxRetryCount == 2

\* Line 30.
RETRY_DELAY_MS == 1000

Undefined == [t |-> "undefined", v |-> 0]
Num(n) == [t |-> "number", v |-> n]
Bool(b) == [t |-> "boolean", v |-> IF b THEN 1 ELSE 0]

\* alarmProps as the runtime may pass it: each field present with its type
\* or absent.
AlarmPropsSet ==
    [retryCount : {Undefined} \cup {Num(n) : n \in 0..MaxRetryCount},
     isRetry : {Undefined, Bool(TRUE), Bool(FALSE)}]

\* What super.alarm or scheduleNextAlarm may throw: an Error or another value.
AlarmThrowables ==
    {[isError |-> TRUE, message |-> "alarm failed"],
     [isError |-> FALSE, message |-> "reset"]}

NoAlarmError == [isError |-> FALSE, message |-> ""]

\* serializeAlarmError (lines 5-11).
serializeAlarmError(error) ==
    IF error.isError
    THEN [message |-> error.message, stack |-> TRUE]
    ELSE [message |-> error.message, stack |-> FALSE]

\* Lines 18-23.
metadata(props) ==
    [retryCount |-> IF props.retryCount.t = "number" THEN props.retryCount ELSE Undefined,
     isRetry |-> IF props.isRetry.t = "boolean" THEN props.isRetry ELSE Undefined]

AlarmLogEntry(level, text, props, error) ==
    [level |-> level, text |-> text, metadata |-> metadata(props),
     error |-> serializeAlarmError(error)]

\* No call of alarm (the other specifications).
AlarmIdle ==
    /\ alPc = "idle"
    /\ alarmProps = [retryCount |-> Undefined, isRetry |-> Undefined]
    /\ alError = NoAlarmError
    /\ alSchedules = <<>>
    /\ alLog = <<>>

AlarmInit ==
    /\ alPc = "called"
    /\ alarmProps \in AlarmPropsSet
    /\ alError = NoAlarmError
    /\ alSchedules = <<>>
    /\ alLog = <<>>

\* Lines 15-27: super.alarm is awaited; what it throws is caught and logged.
SuperAlarm ==
    /\ alPc = "called"
    /\ \/ /\ alPc' = "resolved"
          /\ UNCHANGED <<alError, alLog>>
       \/ \E error \in AlarmThrowables :
            /\ alError' = error
            /\ alLog' = Append(alLog, AlarmLogEntry("error", "alarm loop exception",
                                               alarmProps, error))
            /\ alPc' = "catch"
    /\ UNCHANGED <<alarmProps, alSchedules, retryVars, proxyVars, syncVars, restoreVars,
                   waitVars, cliVars, adminVars>>

\* Where alarm ends when scheduleNextAlarm throws (lines 32-37).
AfterScheduleError_Rethrown == "rejected"

AfterScheduleError == "resolved"

\* Lines 29-37: the retry is scheduled; what scheduleNextAlarm throws is
\* caught and logged.
ScheduleRetry ==
    /\ alPc = "catch"
    /\ \/ /\ alSchedules' = Append(alSchedules, [delay |-> RETRY_DELAY_MS, ok |-> TRUE])
          /\ alLog' = Append(alLog, AlarmLogEntry("warn",
                                 "scheduled retry after alarm exception",
                                 alarmProps, NoAlarmError))
          /\ alPc' = "resolved"
       \/ \E scheduleError \in AlarmThrowables :
            /\ alSchedules' = Append(alSchedules,
                                     [delay |-> RETRY_DELAY_MS, ok |-> FALSE])
            /\ alLog' = Append(alLog, AlarmLogEntry("error",
                                   "failed to schedule retry alarm",
                                   alarmProps, scheduleError))
            /\ alPc' = AfterScheduleError
    /\ UNCHANGED <<alarmProps, alError, retryVars, proxyVars, syncVars, restoreVars,
                   waitVars, cliVars, adminVars>>

AlarmNext == SuperAlarm \/ ScheduleRetry

(***************************************************************************)
(* The worker's catch-all route (src/src/sandbox.ts:193-267)               *)
(***************************************************************************)

\* A request header: absent, or present with a value made of text pieces.
NoHeader == [present |-> FALSE, value |-> <<>>]

Header(value) == [present |-> TRUE, value |-> value]

UpgradeHeaders == {NoHeader, Header(<<"websocket">>), Header(<<"WebSocket">>), Header(<<"h2c">>)}

AcceptHeaders ==
    {NoHeader, Header(<<"*/*">>), Header(<<"TEXT/HTML">>),
     Header(<<"text/html", ",application/xhtml+xml">>)}

\* What findExistingClawdbotProcess resolves with: null, or a process.
NullProcess == [found |-> FALSE, status |-> "none"]

FindResults ==
    {NullProcess} \cup [found : {TRUE}, status : {"starting", "running", "completed"}]

\* What ensureClawdbotGateway rejects with.
ProxyThrowables ==
    {[isError |-> TRUE, message |-> <<"boom">>],
     [isError |-> TRUE, message |-> <<"FATAL: ", "heap out of memory">>],
     [isError |-> TRUE, message |-> <<"OOM", " killed">>],
     [isError |-> FALSE, message |-> <<"heap out of memory">>]}

\* Statuses the container answers a forwarded request with.
UpstreamStatuses == {101, 200, 404, 502}

\* Line 205: request.headers.get('Upgrade')?.toLowerCase() === 'websocket'.
LowerPiece(piece) == IF piece = "WebSocket" THEN "websocket" ELSE piece

isWebSocketRequest(request) ==
    /\ request.upgrade.present
    /\ [i \in 1..Len(request.upgrade.value) |-> LowerPiece(request.upgrade.value[i])]
         = <<"websocket">>

\* Line 206: request.headers.get('Accept')?.includes('text/html').
acceptsHtml(request) ==
    request.accept.present /\ Includes(request.accept.value, "text/html")

\* Line 202.
isGatewayReady_Found(process) == process # NullProcess

isGatewayReady(process) == process # NullProcess /\ process.status = "running"

\* Line 208.
ServesLoadingPage(process, request) ==
    ~isGatewayReady(process) /\ ~isWebSocketRequest(request) /\ acceptsHtml(request)

\* Line 228.
errorMessage(error) == IF error.isError THEN error.message ELSE <<"Unknown error">>

\* Lines 230-235.
hint(keySet, message) ==
    IF ~keySet
    THEN "ANTHROPIC_API_KEY is not set. Run: wrangler secret put ANTHROPIC_API_KEY"
    ELSE IF Includes(message, "heap out of memory") \/ Includes(message, "OOM")
    THEN "Gateway ran out of memory. Try again or check for memory leaks."
    ELSE "Check worker logs with: wrangler tail"

\* Line 221: c.html(loadingPageHtml).
LoadingPage == [kind |-> "html", status |-> 200, body |-> "loadingPageHtml"]

\* Lines 237-241.
StartFailed(keySet, error) ==
    [kind |-> "json", status |-> 503, error |-> "Clawdbot gateway failed to start",
     details |-> errorMessage(error), hint |-> hint(keySet, errorMessage(error))]

\* Line 250: the response of wsConnect is returned as it is; lines 258-266:
\* the response of containerFetch is returned with two headers added.
Forwarded(op, status) ==
    [kind |-> op, status |-> status, debugHeaders |-> (op = "containerFetch")]

\* An await of the handler rejected outside its try block: the handler rejects.
HandlerRejected == [kind |-> "rejected", status |-> 500]

NoProxyResponse == [kind |-> "none", status |-> 0]

Event(op, arg) == [op |-> op, arg |-> arg]

\* No request (the other specifications).
ProxyIdle ==
    /\ pPc = "idle"
    /\ pRequest = [upgrade |-> NoHeader, accept |-> NoHeader]
    /\ pKey = TRUE
    /\ existingProcess = NullProcess
    /\ pEvents = <<>>
    /\ pResponse = NoProxyResponse

\* A request reaches the route (lines 195-199).
ProxyRequest ==
    /\ pPc = "idle"
    /\ \E upgrade \in UpgradeHeaders, accept \in AcceptHeaders :
        pRequest' = [upgrade |-> upgrade, accept |-> accept]
    /\ pKey' \in BOOLEAN
    /\ pPc' = "find"
    /\ UNCHANGED <<existingProcess, pEvents, pResponse, retryVars, syncVars,
                   restoreVars, waitVars, cliVars, adminVars, alarmVars>>

\* Lines 201-222: the lookup, and either the loading page with the gateway
\* start handed to waitUntil, or the call of ensureClawdbotGateway awaited
\* at line 226.
ProxyFind ==
    /\ pPc = "find"
    /\ \/ /\ pEvents' = Append(pEvents, Event("findExistingClawdbotProcess", "rejected"))
          /\ pResponse' = HandlerRejected
          /\ pPc' = "answered"
          /\ UNCHANGED existingProcess
       \/ \E process \in FindResults :
            /\ existingProcess' = process
            /\ IF ServesLoadingPage(process, pRequest)
               THEN /\ pEvents' = pEvents \o
                        <<Event("findExistingClawdbotProcess", "resolved"),
                          Event("ensureClawdbotGateway", "waitUntil")>>
                    /\ pResponse' = LoadingPage
                    /\ pPc' = "background"
               ELSE /\ pEvents' = pEvents \o
                        <<Event("findExistingClawdbotProcess", "resolved"),
                          Event("ensureClawdbotGateway", "awaited")>>
                    /\ pResponse' = pResponse
                    /\ pPc' = "ensure"
    /\ UNCHANGED <<pRequest, pKey, retryVars, syncVars, restoreVars, waitVars,
                   cliVars, adminVars, alarmVars>>

\* Lines 225-242: the awaited ensureClawdbotGateway settles.
ProxyEnsure ==
    /\ pPc = "ensure"
    /\ \/ /\ pEvents' = Append(pEvents, Event("ensureClawdbotGateway", "resolved"))
          /\ pPc' = "forward"
          /\ pResponse' = pResponse
       \/ \E error \in ProxyThrowables :
            /\ pEvents' = Append(pEvents, Event("ensureClawdbotGateway", "rejected"))
            /\ pResponse' = StartFailed(pKey, error)
            /\ pPc' = "answered"
    /\ UNCHANGED <<pRequest, pKey, existingProcess, retryVars, syncVars,
                   restoreVars, waitVars, cliVars, adminVars, alarmVars>>

\* Lines 244-266: the request goes to the container.
ProxyForward ==
    /\ pPc = "forward"
    /\ LET op == IF isWebSocketRequest(pRequest) THEN "wsConnect" ELSE "containerFetch" IN
        \/ /\ pEvents' = Append(pEvents, Event(op, "rejected"))
           /\ pResponse' = HandlerRejected
        \/ \E status \in UpstreamStatuses :
            /\ pEvents' = Append(pEvents, Event(op, "resolved"))
            /\ pResponse' = Forwarded(op, status)
    /\ pPc' = "answered"
    /\ UNCHANGED <<pRequest, pKey, existingProcess, retryVars, syncVars,
                   restoreVars, waitVars, cliVars, adminVars, alarmVars>>

\* Lines 212-216: the gateway start handed to waitUntil settles after the
\* loading page was returned; a rejection is caught and logged.
ProxyBackground ==
    /\ pPc = "background"
    /\ \E settled \in {"background resolved", "background rejected"} :
        pEvents' = Append(pEvents, Event("ensureClawdbotGateway", settled))
    /\ pPc' = "answered"
    /\ UNCHANGED <<pRequest, pKey, existingProcess, pResponse, retryVars, syncVars,
                   restoreVars, waitVars, cliVars, adminVars, alarmVars>>

ProxyNext == ProxyRequest \/ ProxyFind \/ ProxyEnsure \/ ProxyForward \/ ProxyBackground

(***************************************************************************)
(* Specifications                                                          *)
(***************************************************************************)

\* Each specification starts its own mechanism and leaves the others idle.
InitRetry == RetryInit /\ SyncIdle /\ RestoreIdle /\ WaitIdle /\ CliIdle /\ AdminIdle /\ AlarmIdle /\ ProxyIdle

InitSync == RetryInit /\ SyncInit /\ RestoreIdle /\ WaitIdle /\ CliIdle /\ AdminIdle /\ AlarmIdle /\ ProxyIdle

InitRestore == RetryInit /\ RestoreInit /\ WaitIdle /\ CliIdle /\ AdminIdle /\ AlarmIdle /\ ProxyIdle

InitWait == RetryInit /\ SyncIdle /\ RestoreIdle /\ WaitInit /\ CliIdle /\ AdminIdle /\ AlarmIdle /\ ProxyIdle

InitAdmin == RetryInit /\ SyncIdle /\ RestoreIdle /\ WaitIdle /\ CliIdle /\ AdminInit /\ AlarmIdle /\ ProxyIdle

InitAlarm == RetryInit /\ SyncIdle /\ RestoreIdle /\ WaitIdle /\ CliIdle /\ AdminIdle /\ AlarmInit /\ ProxyIdle

InitCli == RetryInit /\ SyncIdle /\ RestoreIdle /\ WaitIdle /\ CliInit /\ AdminIdle /\ AlarmIdle /\ ProxyIdle

SpecRetry == InitRetry /\ [][RetryNext]_vars

SpecSync == InitSync /\ [][SyncNext]_vars

SpecRestore == InitRestore /\ [][RestoreNext]_vars

SpecWait == InitWait /\ [][WaitNext]_vars

SpecCli == InitCli /\ [][CliNext]_vars

SpecAdmin == InitAdmin /\ [][AdminNext]_vars

SpecAlarm == InitAlarm /\ [][AlarmNext]_vars

InitProxy == RetryInit /\ SyncIdle /\ RestoreIdle /\ WaitIdle /\ CliIdle /\ AdminIdle /\ AlarmIdle /\ ProxyIdle

SpecProxy == InitProxy /\ [][ProxyNext]_vars

(***************************************************************************)
(* Properties of withSandboxResetRetry (checked under SpecRetry)           *)
(***************************************************************************)

RetryFinished == rPc \in {"returned", "thrown"}

\* A failure the classifier takes for a handle invalidation: an Error whose
\* message holds one of the two reset fragments.
InvalidationFailure(call) ==
    /\ ~call.ok
    /\ call.error.isError
    /\ \/ Includes(call.error.message, FRAG_STORAGE_RESET)
       \/ Includes(call.error.message, FRAG_CODE_UPDATED)

\* C1: operation is invoked again only after a failure classified as a handle
\* invalidation, never after any other failure or after a success, and it is
\* invoked at most N times in all (at most N-1 retries), N the clamped
\* attempts value.
C1_RetryOnlyOnInvalidation ==
    /\ rPc # "idle" => Len(calls) <= attempts
    /\ \A i \in 1..(Len(calls) - 1) : InvalidationFailure(calls[i])

\* Every one of N >= 2 attempts was used up by invalidation failures.
C1_Witness ==
    /\ rPc = "thrown"
    /\ options.attempts.given /\ options.attempts.value >= 2
    /\ Len(calls) = attempts

Reacquisitions == created - (IF options.initialGiven THEN 0 ELSE 1)

\* C3: every retry runs with a stub acquired after the failure before it (not
\* the stub that failed); reacquisitions and diagnostics both number the
\* retries; and the value returned is that of the invocation on the newest stub.
C3_RetryUsesNewHandle ==
    /\ \A i \in 2..Len(calls) :
        /\ calls[i].sandbox # calls[i - 1].sandbox
        /\ calls[i].sandbox > calls[i - 1].created
    /\ RetryFinished =>
        /\ Reacquisitions = Len(calls) - 1
        /\ Len(warnings) = Len(calls) - 1
        /\ \A i \in 1..Len(warnings) :
            warnings[i] = [attempt |-> i, attempts |-> attempts]
    /\ rPc = "returned" =>
        /\ rResult = [ok |-> TRUE, value |-> calls[Len(calls)].value]
        /\ calls[Len(calls)].sandbox = sandbox
        /\ \A i \in 1..Len(calls) : calls[i].sandbox <= sandbox

\* attempts = 3, the first attempt hits a reset, the second succeeds: one
\* reacquisition, one diagnostic.
C3_Witness ==
    /\ rPc = "returned"
    /\ options.attempts = [given |-> TRUE, value |-> 3]
    /\ Len(calls) = 2
    /\ Reacquisitions = 1
    /\ Len(warnings) = 1

(***************************************************************************)
(* Properties of the sync engine (checked under SpecSync)                  *)
(***************************************************************************)

\* The files the loop watches: the config tree, the workspace tree outside
\* node_modules and .git, the skills (extensions) tree.
TrackedFiles == {CONFIG_FILE, WORKSPACE_FILE, SKILLS_FILE}

PrefixOf(f) ==
    CASE f = CONFIG_FILE -> "openclaw"
      [] f = WORKSPACE_FILE -> "workspace"
      [] f = SKILLS_FILE -> "skills"

\* Steps of an invocation p of sync_once, told by its position.
Acquires(p) == sPc[p] = "lock" /\ sPc'[p] = "copy"

Skips(p) == sPc[p] = "lock" /\ r2 /\ lockHeld /\ sPc'[p] \in {"idle", "done"}

Records(p) == sPc[p] = "record" /\ sPc'[p] = "release"

Releases(p) == sPc[p] = "release" /\ sPc'[p] \in {"idle", "done"}

\* A turn of the loop: the sleep has ended and the scan is made.
TickStep == ticks' = ticks + 1

TickCallsSyncOnce == sPc'["loop"] = "lock" /\ lPc' = "sync"

C4_OneInCriticalSection ==
    /\ \A p, q \in Callers : (InSync(p) /\ InSync(q)) => p = q
    /\ \A p \in Callers : InSync(p) => lockHeld

C4_SkipDoesNoStorageWork ==
    \A p \in Callers :
        Skips(p) =>
            /\ sRclone[p] = 0
            /\ remote' = remote
            /\ lockHeld'
            /\ \A q \in Callers \ {p} : sPc'[q] = sPc[q]

\* C4: at most one invocation of sync_once is between taking SyncLock and
\* releasing it, whatever the interleaving of loop ticks and the shutdown
\* sync; an invocation that finds the lock held runs no rclone operation and
\* leaves the lock with the invocation that holds it.
C4_SyncLockMutualExclusion ==
    /\ []C4_OneInCriticalSection
    /\ [][C4_SkipDoesNoStorageWork]_vars

\* The shutdown sync was skipped while the loop's sync holds the lock.
C4_Witness ==
    /\ InSync("loop")
    /\ sPc["shutdown"] = "done"
    /\ syncLog = <<[kind |-> "Skip (lock busy)", reason |-> "shutdown"]>>

\* The last successful sync set the watermark and its copy does not hold
\* f's last modification, which was made before that sync wrote its records:
\* f was modified while the sync ran, after the copy had read it.
MissedBySync(f) ==
    /\ lastSync > 0
    /\ marker = lastSync
    /\ Exists(f)
    /\ remote[PrefixOf(f)][f] < mtime[f]
    /\ mtime[f] <= lastSync

NoSyncRunning == ~lockHeld /\ \A p \in Callers : ~InSync(p)

\* C5: a tracked file modified while a sync_once was running, whose
\* modification that sync's copy did not capture, is newer than
\* ChangeWatermark at the loop tick after the sync has completed, and that
\* tick performs a sync.
C5_WriteDuringSyncSeenByNextTick ==
    [][(TickStep /\ NoSyncRunning) =>
        \A f \in TrackedFiles :
            MissedBySync(f) => (Newer(f) /\ TickCallsSyncOnce)]_vars

\* A successful sync of this run changes the watermark at its record step.
SuccessfulRecord == \E p \in Callers : Records(p) /\ sOk[p]

\* The first statement of the loop's subshell.
LoopStarts == lPc = "init" /\ lPc' = "sleep"

C7_RecordStep(p) ==
    Records(p) =>
        IF sOk[p]
        THEN /\ lastSync' = clock
             /\ lastSyncError' = NoSyncError
        ELSE /\ lastSync' = lastSync
             /\ Len(lastSyncError') = 1
             /\ lastSyncError'[1].reason = sReason[p]

C7_ReturnStep(p) ==
    Releases(p) =>
        /\ ~lockHeld'
        /\ lastSync' = lastSync
        /\ lastSyncError' = lastSyncError
        /\ IF sOk[p]
           THEN lastSync > 0 /\ lastSyncError = NoSyncError
           ELSE Len(lastSyncError) = 1 /\ lastSyncError[1].reason = sReason[p]

\* C7: a sync_once that acquired the lock leaves, on success, the last-sync
\* timestamp at the new time and no last-sync error record; on failure, an
\* error record holding the reason and the last-sync timestamp as it was
\* before the attempt; in both cases SyncLock is free when it returns.
C7_SyncOutcomeRecords ==
    [][\A p \in Callers : C7_RecordStep(p) /\ C7_ReturnStep(p)]_vars

\* The loop's sync has failed after an earlier sync of this run succeeded.
C7_Witness ==
    /\ lPc = "sleep" /\ sPc["loop"] = "idle"
    /\ ~lockHeld
    /\ lastSyncError # NoSyncError
    /\ lastSync >= 2

\* The tick, lock free, goes on to the copy.
C8_LockFreeSyncRuns ==
    (sPc["loop"] = "lock" /\ ~lockHeld /\ sPc'["loop"] \notin {"lock", "killed"})
        => Acquires("loop")

C8_IdleTick ==
    /\ UNCHANGED <<marker, lastSync, lastSyncError, syncLog, lockHeld, remote, sPc>>
    /\ lPc' = "sleep"

ForceNotElapsed == sinceForced' < SYNC_FORCE_INTERVAL_SECONDS

C9_FindsLockHeld(p) ==
    sPc[p] = "lock" /\ r2 /\ lockHeld /\ sPc'[p] \notin {"lock", "killed"}

\* C9: a sync_once that finds SyncLock held returns at once, without waiting
\* or queueing, appends a 'Skip (lock busy)' entry with its reason to the
\* sync log, and leaves the last-sync timestamp, the last-sync error record,
\* ChangeWatermark and the lock as they were.
C9_SkipLeavesRecordsAlone ==
    [][\A p \in Callers :
        C9_FindsLockHeld(p) =>
            /\ sPc'[p] \in {"idle", "done"}
            /\ syncLog' = <<[kind |-> "Skip (lock busy)", reason |-> sReason[p]]>>
            /\ sReason[p] \in {"change-detected", "periodic-5m",
                                "change+periodic-5m", "shutdown"}
            /\ UNCHANGED <<lastSync, lastSyncError, marker, lockHeld>>]_vars

\* A periodic tick of the loop was skipped while the shutdown sync copies.
C9_Witness ==
    /\ sPc["shutdown"] = "copy"
    /\ sPc["loop"] = "idle" /\ lPc = "sleep"
    /\ lockHeld
    /\ syncLog = <<[kind |-> "Skip (lock busy)", reason |-> "periodic-5m"]>>

(***************************************************************************)
(* Properties of restore_from_r2 (checked under SpecRestore)               *)
(***************************************************************************)

\* The primary config file exists, or the workspace tree has a file outside
\* node_modules and .git, or the skills (extensions) tree has a file.
LocalStatePresent ==
    \/ mtime[CONFIG_FILE] > 0
    \/ mtime[WORKSPACE_FILE] > 0
    \/ mtime[SKILLS_FILE] > 0

RestoreInvoked == rRuns' = rRuns + 1

SkippedLocal ==
    /\ Len(restoreStatus) = 1
    /\ restoreStatus[1].state = "skipped_local"

\* C10: restore_from_r2 invoked with the credentials set and local state
\* present records RestoreStatus skipped_local and issues no remote probe and
\* no remote copy; an invocation repeated after it gives the same.
C10_RestoreSkipsWhenLocalStatePresent ==
    /\ [][(RestoreInvoked /\ r2 /\ LocalStatePresent) =>
            /\ rsPc' = "returned" /\ rReturn' = 0
            /\ SkippedLocal'
            /\ rProbes' = 0 /\ rCopies' = 0
            /\ UNCHANGED <<mtime, wsDir, skillsDir, remote>>]_vars
    /\ [][SkippedLocal => (SkippedLocal' /\ rProbes' = 0 /\ rCopies' = 0)]_vars

\* The second invocation in a container whose only local state is a
\* workspace file has returned.
C10_Witness ==
    /\ rRuns = 2 /\ rsPc = "returned"
    /\ r2
    /\ mtime[CONFIG_FILE] = 0 /\ mtime[WORKSPACE_FILE] > 0
    /\ SkippedLocal
    /\ rProbes = 0 /\ rCopies = 0

\* C11: with the force-full-restore marker present at boot, restore_from_r2
\* treats local state as absent: it does not record skipped_local and goes on
\* to probe remote storage, even though local files exist.
C11_ForceMarkerOverridesLocalState ==
    [][(RestoreInvoked /\ r2 /\ forceRestore) =>
        (~SkippedLocal' /\ rsPc' = "openclaw")]_vars

\* A probe of the current invocation gave a hard error, or a copy failed.
RestoreFailureSeen == rProbe = "error" \/ rCopy \in {"partial", "nothing"}

RestoreStatusIs(state) ==
    /\ Len(restoreStatus) = 1
    /\ restoreStatus[1].state = state

\* C12: a hard probe error or a failed copy stops restore_from_r2 there: no
\* later prefix is probed or copied, and the final RestoreStatus is failed with
\* a non-empty detail, never restored or fresh, also when an earlier prefix
\* had been copied.
C12_RestoreFailureAborts ==
    /\ [](RestoreFailureSeen =>
            /\ rsPc = "returned" /\ rReturn = 1
            /\ RestoreStatusIs("failed")
            /\ restoreStatus[1].detail # "")
    /\ [][(RestoreFailureSeen /\ ~RestoreInvoked) =>
            /\ rProbes' = rProbes /\ rCopies' = rCopies
            /\ UNCHANGED <<restoreStatus, mtime, wsDir, skillsDir>>]_vars

\* The skills probe failed hard after the config and the workspace had been
\* copied.
C12_Witness ==
    /\ rProbe = "error"
    /\ restoredAny
    /\ rProbes = 3 /\ rCopies = 2
    /\ RestoreStatusIs("failed")

\* C13: after a restore phase that ended in RestoreStatus failed the start
\* script keeps running: it goes on past restore_from_r2 to the
\* configuration, the sync loop and the gateway, and does not terminate.
C13_ScriptRunsOnAfterFailedRestore ==
    [][(mPc = "restore" /\ rsPc = "returned" /\ RestoreStatusIs("failed")
            /\ mPc' # mPc)
        => mPc' = "trap_set"]_vars

\* The current invocation probed the bucket (credentials set, no local
\* state), met no hard probe error and no failed copy, and has returned.
RestoreWentThrough ==
    /\ r2
    /\ rsPc = "returned"
    /\ rProbes > 0
    /\ ~RestoreFailureSeen

\* C14: restore_from_r2 run with credentials, no local state, no probe error
\* and no copy failure records restored exactly when at least one probed
\* prefix reported exists (and was copied), and fresh exactly when every
\* probed prefix reported missing.
C14_RestoredIffSomePrefixExists ==
    RestoreWentThrough =>
        /\ rReturn = 0
        /\ RestoreStatusIs("restored") \/ RestoreStatusIs("fresh")
        /\ RestoreStatusIs("restored") <=> rCopies >= 1
        /\ RestoreStatusIs("fresh") <=> rCopies = 0
        /\ RestoreStatusIs("fresh") => rProbes = 4

\* Only the last probed prefix, skills, was found and copied.
C14_Witness ==
    /\ RestoreWentThrough
    /\ rProbes = 4 /\ rCopies = 1
    /\ mtime[SKILLS_FILE] > 0 /\ mtime[CONFIG_FILE] = 0
    /\ RestoreStatusIs("restored")

\* The script is past its call of restore_from_r2 (line 308).
PastRestore == mPc \notin {"boot", "restore"}

\* A step of the sync engine of a run that is past its restore.
EngineStep == PastRestore /\ mPc' # "restore"

\* C15: every run of the script writes the restore-status record exactly once,
\* whichever way restore_from_r2 ends; the write is done when the script goes
\* on to start the sync loop and the gateway, and no step after it (start of
\* the loop, shutdown sync, end of the script) changes the record.
C15_RestoreStatusWrittenOncePerBoot ==
    /\ [](rWrites <= 1)
    /\ [](PastRestore => rWrites = 1 /\ restoreStatus # NullRestoreStatus)
    /\ [](lPc # "none" \/ gateway # "none" => rWrites = 1)
    /\ [][EngineStep => restoreStatus' = restoreStatus /\ rWrites' = rWrites]_vars

\* A restore from the bucket was recorded, the loop was started after it and
\* the shutdown sync of that run has finished.
C15_Witness ==
    /\ RestoreStatusIs("restored")
    /\ rWrites = 1
    /\ lPc = "dead"
    /\ sPc["shutdown"] = "done"

\* C16: without the credentials no phase touches remote storage or the lock:
\* restore_from_r2 records not_configured and returns 0 without a probe or a
\* copy, sync_once returns 0 without copying and without writing a record,
\* start_sync_loop forks no loop, the shutdown handler starts no final sync,
\* and the bucket, the lock and the last-sync record stay as they were.
C16_NoCredentialsNoStorageWork ==
    /\ [](~r2 => /\ ~lockHeld /\ lPc = "none"
                 /\ rProbes = 0 /\ rCopies = 0
                 /\ \A p \in Callers : sPc[p] \in {"idle", "done"})
    /\ [][(~r2 /\ RestoreInvoked) =>
            /\ RestoreStatusIs("not_configured")'
            /\ rsPc' = "returned" /\ rReturn' = 0]_vars
    /\ [][~r2 => UNCHANGED <<remote, lockHeld, lastSync, lastSyncError, marker,
                             syncLog, mtime, wsDir, skillsDir>>]_vars
    /\ [][\A p \in Callers : (~r2 /\ sPc[p] = "lock" /\ sPc'[p] # "lock") =>
            sPc'[p] = "done"]_vars
    /\ [][(~r2 /\ ~shuttingDown /\ shuttingDown') =>
            (sPc' = sPc /\ mPc' = "sh_kill_gateway")]_vars

\* A container with local files and a backup in the bucket but without the
\* credentials: the script has booted, started its gateway, received a signal
\* and ended.
C16_Witness ==
    /\ ~r2
    /\ RestoreStatusIs("not_configured")
    /\ shuttingDown /\ mPc = "exited" /\ gateway = "exited"
    /\ mtime[CONFIG_FILE] > 0 /\ mtime[WORKSPACE_FILE] > 0
    /\ RemoteHas("openclaw")

(***************************************************************************)
(* Properties of waitForProcess (checked under SpecWait)                   *)
(***************************************************************************)

\* ceil(timeoutMs / pollIntervalMs): the least number of polls whose
\* intervals add up to timeoutMs or more.
PermittedPolls ==
    CHOOSE n \in 0..MaxTimeoutMs :
        /\ n * pollIntervalMs >= timeoutMs
        /\ \A m \in 0..(n - 1) : m * pollIntervalMs < timeoutMs

\* The positions of wSeen (1: the initial query, k + 1: poll k) that hold a
\* status outside {starting, running}.
TerminalSeen == {i \in 1..Len(wSeen) : ~isInProgress(wSeen[i])}

\* C17: when a status outside {starting, running} is read at the initial
\* query or at one of the first ceil(timeoutMs/pollIntervalMs) polls, the last
\* of them included, the call resolves with the first such status and raises
\* no timeout: a call that has read such a status goes nowhere but to
\* resolving with it, and a call is rejected only after the initial query
\* and all permitted polls read starting or running.
C17_ResolvesWithFirstTerminalStatus ==
    /\ [](wPc = "rejected" =>
            (TerminalSeen = {} /\ Len(wSeen) = PermittedPolls + 1))
    /\ [](wPc = "resolved" =>
            /\ TerminalSeen = {Len(wSeen)}
            /\ Len(wSeen) <= PermittedPolls + 1
            /\ wResult = wSeen[Len(wSeen)])
    /\ [][(wPc = "loop" /\ TerminalSeen # {}) =>
            (wPc' = "resolved" /\ wResult' = currentStatus)]_vars
    /\ [](wPc = "loop" /\ TerminalSeen = {} /\ Len(wSeen) <= PermittedPolls
            => ENABLED WaitPoll)

\* timeoutMs 5, pollIntervalMs 2: the third and last permitted poll read
\* completed after starting, running, running, and the call resolved.
C17_Witness ==
    /\ wPc = "resolved"
    /\ timeoutMs = 5 /\ pollIntervalMs = 2
    /\ wSeen = <<"starting", "running", "running", "completed">>
    /\ wAttempts = 3
    /\ wResult = "completed"

\* C18: a call that reads nothing but starting or running is rejected after
\* exactly ceil(timeoutMs/pollIntervalMs) polls, and the Error carries
\* timeoutMs, the last status read and that number of polls.
C18_TimeoutAfterExactlyCeilPolls ==
    /\ [](wPc = "rejected" =>
            /\ wAttempts = PermittedPolls /\ wSleeps = PermittedPolls
            /\ Len(wSeen) = PermittedPolls + 1
            /\ wError = [message |-> "Process did not complete within",
                         timeoutMs |-> timeoutMs,
                         status |-> wSeen[Len(wSeen)],
                         attempts |-> PermittedPolls])
    /\ [][(wPc = "loop" /\ TerminalSeen = {} /\ wAttempts = PermittedPolls) =>
            wPc' = "rejected"]_vars
    /\ [](wPc = "loop" /\ TerminalSeen = {} => wAttempts <= PermittedPolls)

\* waitForProcess(proc, 5, 1) with getStatus always giving running.
C18_Witness ==
    /\ wPc = "rejected"
    /\ timeoutMs = 5 /\ pollIntervalMs = 1
    /\ proc.hasGetStatus
    /\ \A i \in 1..Len(wSeen) : wSeen[i] = "running"
    /\ wError.timeoutMs = 5 /\ wError.attempts = 5 /\ wError.status = "running"

\* A step of waitForProcess that reads the status.
WaitReads == wSeen' # wSeen

\* C19: every read of the status by waitForProcess asks the process
\* (getStatus), and the status it continues, returns or times out on is the
\* one the process had at that read, never the status field of the object.
C19_NeverDecidesOnCachedStatus ==
    /\ [][WaitReads => wQueries' = wQueries + 1]_vars
    /\ [](wPc \in {"loop", "resolved", "rejected"} => currentStatus = wLive)

(***************************************************************************)
(* Properties of evaluateCliOutcome (checked under SpecCli)                *)
(***************************************************************************)

ExitCodeIsZero == cProc.exitCode.kind = "number" /\ cProc.exitCode.value = 0

ExitCodeAbsent == cProc.exitCode.kind \in {"undefined", "null"}

\* Some success keyword, lower-cased, occurs in the given lower-cased text.
KeywordIn(text) ==
    \E k \in 1..Len(successKeywords) :
        includes(toLowerCase(text), toLowerCase(successKeywords[k]))

IsTrimOf(t, text) ==
    /\ t = <<>> \/ (t[1] \notin Whitespace /\ t[Len(t)] \notin Whitespace)
    /\ \E i \in 0..(Len(text) - Len(t)) :
        /\ \A j \in 1..Len(t) : text[i + j] = t[j]
        /\ \A j \in 1..Len(text) : (j <= i \/ j > i + Len(t)) => text[j] \in Whitespace

Blank(text) == \A j \in 1..Len(text) : text[j] \in Whitespace

\* C21: the outcome of evaluateCliOutcome carries an error exactly when
\* success is false, and the error is the trimmed stderr if that is not
\* empty, else the trimmed stdout if that is not empty, else the synthesized
\* 'Command failed' text with the status and, only for a numeric exit code,
\* the exit code.
C21_ErrorIffFailureInPreferenceOrder ==
    cPc = "returned" =>
        /\ ("error" \in DOMAIN outcome) <=> ~outcome.success
        /\ ~outcome.success =>
            IF ~Blank(logs.stderr)
            THEN outcome.error.kind = "text" /\ IsTrimOf(outcome.error.text, logs.stderr)
            ELSE IF ~Blank(logs.stdout)
            THEN outcome.error.kind = "text" /\ IsTrimOf(outcome.error.text, logs.stdout)
            ELSE /\ outcome.error.kind = "Command failed"
                 /\ outcome.error.status = outcome.status
                 /\ ("exitCode" \in DOMAIN outcome.error) <=> cProc.exitCode.kind = "number"
                 /\ cProc.exitCode.kind = "number" =>
                        outcome.error.exitCode = cProc.exitCode.value

\* A failed command whose stderr is white space only and whose stdout is
\* "b": the error is the stdout text.
C21_Witness ==
    /\ cPc = "returned"
    /\ ~outcome.success
    /\ logs.stderr = <<"\n">> /\ logs.stdout = <<"b">>
    /\ outcome.error = [kind |-> "text", text |-> <<"b">>]

(***************************************************************************)
(* Properties of shutdown_handler (checked under SpecSync)                 *)
(***************************************************************************)

\* The step forks the shutdown sync.
ShutdownSyncStarts == sPc["shutdown"] # "lock" /\ sPc'["shutdown"] = "lock"

\* The step is the first termination request of the run.
FirstRequest == ~shuttingDown /\ shuttingDown'

\* The step sends TERM to the gateway.
GatewaySignalled == gateway # "signalled" /\ gateway' = "signalled"

\* C22: only the first termination request of a run starts the shutdown
\* sync; an invocation of shutdown_handler that finds SHUTTING_DOWN set
\* starts no sync, stops no loop and sends no signal, it leaves the syncs, the
\* loop, the gateway and every record as they are; the handler that is
\* already running signals the gateway at most once.
C22_ShutdownHandlerIdempotent ==
    /\ [][shuttingDown => shuttingDown']_vars
    /\ [][ShutdownSyncStarts => FirstRequest]_vars
    /\ [](shuttingDown => ~ENABLED ShutdownBegin)
    /\ [][(shuttingDown /\ ShutdownAgain) =>
            UNCHANGED <<sPc, lPc, gateway, waited, recordVars, envVars>>]_vars
    /\ [][gateway = "signalled" => gateway' \in {"signalled", "exited"}]_vars
    /\ [][GatewaySignalled => (shuttingDown /\ mPc = "sh_kill_gateway")]_vars

\* A second request came while the handler waited for the gateway: the
\* shutdown sync had run once and the gateway had its one TERM.
C22_Witness ==
    /\ shuttingDown
    /\ mPc = "exited" /\ gateway = "signalled"
    /\ sPc["shutdown"] = "done"
    /\ lastSync > 0

\* The step ends the wait loop of run_shutdown_sync_with_timeout.
DrainEnds == mPc = "sh_wait" /\ mPc' # "sh_wait"

NoSyncInFlight == \A p \in Callers : sPc[p] \in {"idle", "done", "killed"}

\* The step is the exit of the script from its shutdown handler.
HandlerExits == shuttingDown /\ mPc # "exited" /\ mPc' = "exited"

\* C24: after a termination request the shutdown sync has returned or been
\* killed before the loop is stopped, the loop is stopped and no sync_once is
\* running when the gateway is sent TERM, and the script exits only when the
\* gateway it signalled has exited.
C24_ShutdownStepsInOrder ==
    /\ [](mPc \in {"sh_kill_gateway", "sh_wait_gateway"} =>
            (NoSyncInFlight /\ lPc \in {"none", "dead"}))
    /\ [][GatewaySignalled =>
            (NoSyncInFlight /\ lPc \in {"none", "dead"})]_vars
    /\ [][HandlerExits => gateway' \in {"none", "exited"}]_vars

(***************************************************************************)
(* Further properties of withSandboxResetRetry (checked under SpecRetry)   *)
(***************************************************************************)

\* Every invocation of operation so far threw, and none threw an Error.
OnlyRawFailures ==
    /\ Len(calls) >= 1
    /\ \A i \in 1..Len(calls) : ~calls[i].ok /\ ~calls[i].error.isError

GetAnswered == aPc = "answered" /\ aRequest = "GET /storage"

\* The status files the handler read, and whether every read came back.
StatusReads == {i \in 1..Len(aCalls) : aCalls[i].call = "cat"}
AllReadsOk == \A i \in StatusReads : aCalls[i].ok

\* The last-sync error record has text other than white space.
ErrorRecordNonEmpty == \E i \in 1..Len(sbFiles.lastSyncError) :
                          sbFiles.lastSyncError[i] \notin Whitespace

\* The restore-status record is an object whose state and timestamp are
\* strings; and its state is failed.
RestoreRecordWellFormed ==
    /\ IsObjectText(sbFiles.restoreStatus)
    /\ Property(sbFiles.restoreStatus, "state").t = "string"
    /\ Property(sbFiles.restoreStatus, "timestamp").t = "string"

RestoreRecordFailed ==
    RestoreRecordWellFormed /\ Property(sbFiles.restoreStatus, "state") = JStr("failed")

\* Without the credentials: nulls, not degraded, and no status file read.
UnconfiguredAnswer ==
    (GetAnswered /\ ~hasCredentials(cenv)) =>
        /\ ~aResponse.configured
        /\ aResponse.lastSync = Null
        /\ aResponse.lastSyncError = Null
        /\ ~aResponse.backupDegraded
        /\ aCalls = <<>>

\* A restore-status record that is missing or malformed gives no restore
\* field, and then the backup is degraded only through the error record.
MalformedRestoreAnswer ==
    (GetAnswered /\ ~RestoreRecordWellFormed) =>
        /\ aResponse.restore.isNull
        /\ aResponse.backupDegraded => ~aResponse.lastSyncError.isNull

\* C26 as stated: GET /api/admin/storage reports backupDegraded exactly when
\* the credentials are configured and either a non-empty last-sync error
\* record exists or the restore-status record parses with state failed;
\* without credentials it reports lastSync = null, lastSyncError = null and
\* backupDegraded = false and reads no status record; a missing or malformed
\* restore-status record yields no restore field and does not by itself make
\* the backup degraded.
C26_DegradedIffErrorOrFailedRestoreOnRecord ==
    /\ GetAnswered =>
         (aResponse.backupDegraded <=>
            (hasCredentials(cenv) /\ (ErrorRecordNonEmpty \/ RestoreRecordFailed)))
    /\ UnconfiguredAnswer
    /\ MalformedRestoreAnswer

\* C26 amended: the equivalence holds when all three status reads came back;
\* when any of them was rejected the handler reports lastSync = null,
\* lastSyncError = null, no restore field and backupDegraded = false whatever
\* the records hold. The rest is as stated.
C26_DegradedIffErrorOrFailedRestoreRead ==
    /\ (GetAnswered /\ AllReadsOk) =>
         /\ aResponse.backupDegraded <=>
              (hasCredentials(cenv) /\ (ErrorRecordNonEmpty \/ RestoreRecordFailed))
         /\ hasCredentials(cenv) =>
              /\ aResponse.lastSyncError.isNull <=> ~ErrorRecordNonEmpty
              /\ aResponse.restore.isNull <=> ~RestoreRecordWellFormed
    /\ (GetAnswered /\ ~AllReadsOk) =>
         /\ aResponse.lastSync = Null
         /\ aResponse.lastSyncError = Null
         /\ aResponse.restore.isNull
         /\ ~aResponse.backupDegraded
    /\ UnconfiguredAnswer
    /\ MalformedRestoreAnswer

\* Configured, all reads back, no sync error, and a restore record that
\* parses with state failed: degraded on the restore alone.
C26_Witness ==
    /\ GetAnswered /\ hasCredentials(cenv) /\ AllReadsOk
    /\ StatusReads = 1..3
    /\ ~ErrorRecordNonEmpty
    /\ RestoreRecordFailed
    /\ aResponse.lastSyncError = Null
    /\ ~aResponse.restore.isNull /\ aResponse.restore.state = "failed"
    /\ aResponse.backupDegraded

PostAnswered == aPc = "answered" /\ aRequest = "POST /storage/restore"

\* The positions in the handler's calls of the calls of one name.
CallsOf(name) == {i \in 1..Len(aCalls) : aCalls[i].call = name}

MarkerWritten == \E i \in CallsOf("touch") :
                    aCalls[i].arg = FORCE_RESTORE_MARKER_FILE /\ aCalls[i].ok

\* Without the credentials: 400, no marker, no kill, no start of a gateway.
UnconfiguredRestoreAnswer ==
    (PostAnswered /\ ~hasCredentials(cenv)) =>
        /\ aResponse.status = 400
        /\ aCalls = <<>>
        /\ ~forceRestore

\* The marker is touched before the lookup, and a process is killed at most
\* once, after the lookup.
MarkerThenLookupThenKill ==
    /\ \A i \in CallsOf("findExistingMoltbotProcessWithRetry") :
         \E j \in CallsOf("touch") : j < i /\ aCalls[j].ok
    /\ Cardinality(CallsOf("kill")) <= 1
    /\ \A k \in CallsOf("kill") :
         \E i \in CallsOf("findExistingMoltbotProcessWithRetry") : i < k /\ aCalls[i].ok

\* ensureMoltbotGateway is called exactly once, after the lookup and after
\* any kill, whether the kill was rejected or not.
RestartsOnce ==
    /\ Cardinality(CallsOf("ensureMoltbotGateway")) = 1
    /\ \A e \in CallsOf("ensureMoltbotGateway") :
         /\ \A k \in CallsOf("kill") : k < e
         /\ \E i \in CallsOf("findExistingMoltbotProcessWithRetry") : i < e

\* C27 as stated: POST /api/admin/storage/restore without credentials answers
\* 400 and writes no marker, kills no process and starts no gateway; with
\* credentials it writes the marker before it looks up the existing process,
\* kills an existing process at most once, and calls ensureMoltbotGateway
\* exactly once after the kill attempt, also when the kill throws.
C27_ForcedRestoreAlwaysRestarts ==
    /\ UnconfiguredRestoreAnswer
    /\ (PostAnswered /\ hasCredentials(cenv)) =>
         /\ MarkerWritten /\ forceRestore
         /\ MarkerThenLookupThenKill
         /\ RestartsOnce

\* C27 amended: with credentials the marker write comes first; when it and
\* the lookup come back, the rest is as stated; when either is rejected the
\* handler answers 500 and neither kills nor calls ensureMoltbotGateway (and
\* a rejected marker write also means no lookup).
C27_ForcedRestoreRestartsUnlessRejected ==
    /\ UnconfiguredRestoreAnswer
    /\ (PostAnswered /\ hasCredentials(cenv)) =>
         /\ CallsOf("touch") = {1}
         /\ forceRestore = MarkerWritten
         /\ MarkerThenLookupThenKill
         /\ IF \E i \in 1..Len(aCalls) :
                  aCalls[i].call \in {"touch", "findExistingMoltbotProcessWithRetry"}
                  /\ ~aCalls[i].ok
            THEN /\ aResponse.status = 500
                 /\ CallsOf("kill") = {}
                 /\ CallsOf("ensureMoltbotGateway") = {}
                 /\ (~MarkerWritten => CallsOf("findExistingMoltbotProcessWithRetry") = {})
            ELSE /\ MarkerWritten
                 /\ RestartsOnce
                 /\ (aResponse.status = 200) =>
                      ((CallsOf("kill") # {}) <=>
                         (aResponse.previousProcessId = "process"))

\* Credentials set, a process found whose kill is rejected: one kill, then
\* the one call of ensureMoltbotGateway, and the answer 200.
C27_Witness ==
    /\ PostAnswered /\ hasCredentials(cenv)
    /\ forceRestore
    /\ \E k \in CallsOf("kill") : ~aCalls[k].ok
    /\ RestartsOnce
    /\ aResponse.status = 200

(***************************************************************************)
(* Properties of Sandbox.alarm (checked under SpecAlarm)                   *)
(***************************************************************************)

AlarmEnded == alPc \in {"resolved", "rejected"}

SuperAlarmThrew == alError \in AlarmThrowables

\* C28: Sandbox.alarm never rejects. When the underlying alarm throws, the
\* exception is swallowed and exactly one retry alarm is scheduled, 1000 ms
\* later; when it succeeds no retry is scheduled; when scheduling the retry
\* throws, that is swallowed too and alarm still resolves.
C28_AlarmNeverRejects ==
    /\ alPc # "rejected"
    /\ (AlarmEnded /\ SuperAlarmThrew) =>
         /\ Len(alSchedules) = 1
         /\ alSchedules[1].delay = 1000
         /\ alPc = "resolved"
    /\ (AlarmEnded /\ ~SuperAlarmThrew) => alSchedules = <<>>
    /\ (alPc = "catch") => (SuperAlarmThrew /\ alSchedules = <<>>)
    /\ Len(alSchedules) <= 1

\* The underlying alarm threw a value that is not an Error and
\* scheduleNextAlarm(1000) threw as well; alarm resolved.
C28_Witness ==
    /\ alPc = "resolved"
    /\ SuperAlarmThrew /\ ~alError.isError
    /\ Len(alSchedules) = 1 /\ ~alSchedules[1].ok
    /\ Len(alLog) = 2 /\ alLog[2].level = "error"

(***************************************************************************)
(* Further properties of restore_from_r2 (checked under SpecRestore)       *)
(***************************************************************************)

\* The paths in the order the claim gives them, and the place of a path in it.
ProbeOrder == <<"openclaw/openclaw.json", "clawdbot/clawdbot.json", "workspace/", "skills/">>

PlaceOf(path) == CHOOSE i \in 1..Len(ProbeOrder) : ProbeOrder[i] = path

\* The run's probes so far follow the order: the first is the primary config,
\* each later one is further down the order, the workspace is not passed over,
\* and nothing is probed after an answer that is an error.
ProbesInOrder ==
    /\ rProbeLog # <<>> => rProbeLog[1].path = ProbeOrder[1]
    /\ \A i \in 1..Len(rProbeLog) : \A j \in 1..Len(rProbeLog) :
         i < j => /\ PlaceOf(rProbeLog[i].path) < PlaceOf(rProbeLog[j].path)
                  /\ rProbeLog[i].answer # "error"
    /\ \A j \in 1..Len(rProbeLog) :
         rProbeLog[j].path = "skills/" => (j > 1 /\ rProbeLog[j - 1].path = "workspace/")

\* The legacy config is probed exactly when the primary probe answered
\* missing: it is the second probe then, and no probe otherwise.
LegacyProbed == \E i \in 1..Len(rProbeLog) : rProbeLog[i].path = ProbeOrder[2]

LegacyIffPrimaryMissing ==
    /\ LegacyProbed => (rProbeLog[1].answer = "missing" /\ rProbeLog[2].path = ProbeOrder[2])
    /\ (rProbeLog # <<>> /\ rProbeLog[1].answer = "missing" /\ rsPc # "legacy") => LegacyProbed
    /\ (rsPc = "legacy") => (Len(rProbeLog) = 1 /\ rProbeLog[1].answer = "missing")

\* The step in which the legacy copy completed, and whether it moved
\* clawdbot.json to the primary name; the primary config file is there before
\* the move if it was there before the copy or came with the copy.
LegacyCopied == rsPc = "legacy" /\ rProbe' = "exists" /\ rCopy' = "ok"
Renamed == LegacyCopied /\ ~legacyLocal' /\ Exists(CONFIG_FILE)'
PrimaryBeforeMove == Exists(CONFIG_FILE) \/ legacyPrimary

\* C29: the restore probes the prefixes in the fixed order primary config,
\* legacy config, workspace, extensions; the legacy config is probed if and
\* only if the primary probe returned missing (never when the primary exists
\* or its probe errs); and a restored legacy config file is renamed to the
\* primary name only when no primary config file exists locally.
C29_ProbeOrderAndLegacyMigration ==
    /\ [](ProbesInOrder /\ LegacyIffPrimaryMissing)
    /\ [][/\ Renamed => ~PrimaryBeforeMove
          /\ (LegacyCopied /\ ~PrimaryBeforeMove) => Renamed]_vars

\* A run that found no primary config, restored the legacy one and renamed
\* it, and went on to the workspace and the extensions.
C29_Witness ==
    /\ rsPc = "returned" /\ rReturn = 0
    /\ Len(rProbeLog) = 4
    /\ [i \in 1..4 |-> rProbeLog[i].path] = ProbeOrder
    /\ rProbeLog[1].answer = "missing" /\ rProbeLog[2].answer = "exists"
    /\ ~legacyPrimary /\ ~legacyLocal /\ Exists(CONFIG_FILE)

(***************************************************************************)
(* Further properties of waitForProcess (checked under SpecWait)           *)
(***************************************************************************)

WaitStarted == wPc \in {"loop", "resolved", "rejected"}

WaitEnded == wPc \in {"resolved", "rejected"}

\* C30: waitForProcess stops polling at the first status outside {starting,
\* running}: no status query and no sleep follows it. In every run the
\* number of status queries is the number of sleeps plus one. When the
\* initial query is terminal, or ceil(timeoutMs / pollIntervalMs) <= 0, the
\* call returns or fails without sleeping.
C30_StopsAtFirstTerminalStatus ==
    /\ [](WaitStarted =>
            /\ \A i \in 1..(Len(wSeen) - 1) : wSeen[i] \in {"starting", "running"}
            /\ Len(wSeen) = wSleeps + 1
            /\ proc.hasGetStatus => wQueries = wSleeps + 1
            /\ (wSeen[1] \notin {"starting", "running"} \/ maxAttempts <= 0) =>
                 /\ wSleeps = 0
                 /\ Len(wSeen) = 1
                 /\ wPc = "resolved" => wSeen[1] \notin {"starting", "running"}
                 /\ wPc = "rejected" => wSeen[1] \in {"starting", "running"})
    /\ [][(wPc = "loop" /\ currentStatus \notin {"starting", "running"}) =>
            /\ wPc' = "resolved"
            /\ wSeen' = wSeen /\ wQueries' = wQueries /\ wSleeps' = wSleeps]_vars
    /\ [][WaitEnded => (wSeen' = wSeen /\ wQueries' = wQueries /\ wSleeps' = wSleeps)]_vars

\* A call that slept twice and stopped at the third query, which answered a
\* terminal status, with polls still left.
C30_Witness ==
    /\ wPc = "resolved"
    /\ proc.hasGetStatus
    /\ wSleeps = 2 /\ wQueries = 3 /\ Len(wSeen) = 3
    /\ wSeen[3] = "completed"
    /\ wAttempts < maxAttempts

(***************************************************************************)
(* Further properties of the sync engine (checked under SpecSync)          *)
(***************************************************************************)

\* The loop's call of sync_once returns in this step: from the lock test
\* (no credentials, or the lock busy) or from the release.
LoopSyncReturns == sPc["loop"] \in {"lock", "release"} /\ sPc'["loop"] = "idle"

\* The call that returns is one that took the lock, copied, and succeeded.
LoopSyncSucceeded == sPc["loop"] = "release" /\ sOk["loop"]

\* C31: the loop's reference time for the periodic force is advanced only by
\* a tick whose sync_once copied to remote and succeeded; a tick whose sync
\* failed or was skipped because SyncLock was busy leaves it as it was, so the
\* forced sync stays due.
C31_ForceReferenceOnlyOnSuccess ==
    [][LoopSyncReturns =>
         IF LoopSyncSucceeded THEN sinceForced' = 0
         ELSE sinceForced' = sinceForced]_vars

\* The latest sync that took the lock was one of the loop's and it failed:
\* its error record stands, no sync has succeeded since.
LoopReasons == {"change-detected", "change+periodic-5m", "periodic-5m"}

LoopFailureStands ==
    /\ lastSyncError # NoSyncError
    /\ lastSyncError[1].reason \in LoopReasons

\* What makes a tick call sync_once, whatever the length of its sleep.
StillEligible == ChangedFiles # {} \/ ForceDue(sinceForced)

\* C32: after a sync of a loop tick failed the same data stays eligible:
\* the change watermark and the force reference are where they were, so the
\* next tick that finds SyncLock free syncs again, whether or not ticks in
\* between found it busy; no failure count or backoff is kept.
C32_FailedSyncRetriedOnNextFreeTick ==
    /\ []((lPc = "sleep" /\ LoopFailureStands) => StillEligible)
    /\ [][(lPc = "sleep" /\ LoopFailureStands /\ ticks' = ticks + 1) =>
            (lPc' = "sync" /\ sPc'["loop"] = "lock")]_vars

\* A step that terminates the sync_once of caller p between its taking of the
\* lock and its release of it.
Cancelled(p) == sPc[p] \in CriticalPcs /\ sPc'[p] = "killed"

\* The step in which run_shutdown_sync_with_timeout reaches its bound.
ShutdownTimeoutStep ==
    /\ mPc = "sh_wait"
    /\ sPc["shutdown"] # "done"
    /\ waited' = SHUTDOWN_TIMEOUT_SECONDS

\* C33: a sync in flight is cancelled only by the timeout of the shutdown
\* path, and the sync it cancels is the shutdown sync: no step of the loop,
\* and neither stop_sync_loop of the shutdown handler nor the one after the
\* gateway ended by itself, terminates a sync_once that holds the lock.
C33_OnlyShutdownTimeoutCancels ==
    [][\A p \in Callers :
         Cancelled(p) => (p = "shutdown" /\ ShutdownTimeoutStep)]_vars

\* The first termination request: shutdown_handler passes its guard.
FirstTerminationRequest == ~shuttingDown /\ shuttingDown'

\* The shutdown sync ends by itself: sync_once "shutdown" returns.
ShutdownSyncReturns == sPc["shutdown"] # "done" /\ sPc'["shutdown"] = "done"

\* The background loop is stopped in this step.
LoopStopped == lPc \notin {"none", "dead"} /\ lPc' = "dead"

\* C34: with remote storage configured the first termination request starts
\* exactly one sync with reason shutdown, the loop is left running until that
\* sync has ended, and the sync copies the tracked trees (it ends from its
\* release of the lock, or is cancelled at the timeout), whatever the loop is
\* doing when the request arrives.
C34_ShutdownSyncCopiesBeforeLoopStops ==
    /\ [][(r2_configured /\ FirstTerminationRequest) =>
            /\ sPc["shutdown"] = "idle" /\ sPc'["shutdown"] = "lock"
            /\ sReason'["shutdown"] = "shutdown"
            /\ lPc' = lPc]_vars
    /\ [][(sPc["shutdown"] # "lock" /\ sPc'["shutdown"] = "lock") =>
            FirstTerminationRequest]_vars
    /\ [][(r2_configured /\ shuttingDown /\ LoopStopped) =>
            (sPc["shutdown"] = "done" \/ sPc'["shutdown"] = "killed")]_vars
    /\ [][(r2_configured /\ ShutdownSyncReturns) =>
            sPc["shutdown"] = "release"]_vars

\* C35: no stale lock: the lock directory exists only while some sync_once
\* is between its mkdir and its rmdir, also after the shutdown timeout killed
\* the shutdown sync and after stop_sync_loop ended the loop.
C35_LockHeldOnlyWhileSyncInFlight ==
    lockHeld => \E p \in Callers : sPc[p] \in CriticalPcs

\* Caller p runs its rclone copies in this step.
Copies(p) == sPc[p] = "copy" /\ sPc'[p] = "record"

\* C36: a sync_once that took the lock runs one copy for every tracked tree
\* that exists locally (the config tree always, workspace and skills only if
\* their directory exists), also after an earlier copy failed; it reports
\* success, and writes the last-sync time and the change marker, if and only
\* if every copy it ran succeeded.
C36_AllExistingTreesAttemptedSuccessIffAllCopied ==
    [][\A p \in Callers :
        /\ Copies(p) =>
             /\ "openclaw" \in Attempted
             /\ sRclone'[p] = Cardinality({x \in Prefixes : SourceDirExists(x)})
             /\ \A x \in Prefixes : ~SourceDirExists(x) => remote'[x] = remote[x]
             /\ sOk'[p] => \A x \in Attempted : remote'[x] = Snapshot(x)
             /\ ~sOk'[p] => \E x \in Attempted : remote'[x] = remote[x]
        /\ Records(p) =>
             IF sOk[p]
             THEN lastSync' = clock /\ marker' = clock /\ lastSyncError' = NoSyncError
             ELSE lastSync' = lastSync /\ marker' = marker /\ lastSyncError' # NoSyncError
        /\ (sPc[p] = "release" /\ sPc'[p] \in {"idle", "done"} /\ p = "loop") =>
             (sinceForced' = 0 <=> (sOk[p] \/ sinceForced = 0))]_vars

\* The copy of the config tree failed and the copy of the skills tree, tried
\* after it, succeeded: the sync is about to record a failure.
C36_Witness ==
    \E p \in Callers :
        /\ sPc[p] = "record"
        /\ ~sOk[p]
        /\ sRclone[p] = 3
        /\ remote["openclaw"] # Snapshot("openclaw")
        /\ remote["skills"] = Snapshot("skills")
        /\ Snapshot("skills") # << >>

(***************************************************************************)
(* Further properties of waitForProcess (checked under SpecWait)           *)
(***************************************************************************)

InProgressStatuses == {"starting", "running"}

\* C37: waitForProcess never resolves with starting or running: the value of
\* a resolved call is the last status read and lies outside {starting,
\* running}; and every status outside that set, the documented completed,
\* failed and error as well as any other string, ends the wait and is
\* returned as it was read.
C37_ResolvesOnlyWithNonProgressStatus ==
    /\ [](wPc = "resolved" =>
            /\ wResult \notin InProgressStatuses
            /\ wResult = currentStatus
            /\ wError = NoWaitError)
    /\ [](wPc = "rejected" => currentStatus \in InProgressStatuses)
    /\ [][(wPc = "loop" /\ currentStatus \in Statuses \ InProgressStatuses) =>
            (wPc' = "resolved" /\ wResult' = currentStatus)]_vars

\* A poll read a status outside the documented ones and the call resolved
\* with it.
C37_Witness ==
    /\ wPc = "resolved"
    /\ wResult = "killed"
    /\ wResult \notin DocumentedTerminal
    /\ wAttempts >= 1
    /\ wAttempts < maxAttempts

(***************************************************************************)
(* Further properties of withSandboxResetRetry (checked under SpecRetry)   *)
(***************************************************************************)

\* The attempts value the caller asked for (the default when none is given).
RequestedAttempts ==
    IF options.attempts.given THEN options.attempts.value ELSE DEFAULT_RETRY_ATTEMPTS

\* The stubs that exist: the caller's, if one was passed, and the created ones.
Handles == created + (IF options.initialGiven THEN 1 ELSE 0)

ForwardOps == {"wsConnect", "containerFetch"}

\* The positions in the handler's calls of a call that forwards the request.
Forwards == {i \in 1..Len(pEvents) : pEvents[i].op \in ForwardOps}

\* The awaited ensureClawdbotGateway settled this way in this request.
EnsureSettled(how) ==
    \E j \in 1..Len(pEvents) : pEvents[j] = Event("ensureClawdbotGateway", how)

\* The lookup is over and found no running gateway, and the request is a
\* non-WebSocket request that accepts HTML.
LoadingCase ==
    /\ pPc \notin {"idle", "find"}
    /\ EnsureSettled("waitUntil") \/ EnsureSettled("awaited")
    /\ existingProcess.status # "running"
    /\ ~(pRequest.upgrade.present /\ pRequest.upgrade.value \in {<<"websocket">>, <<"WebSocket">>})
    /\ pRequest.accept.present
    /\ \E i \in 1..Len(pRequest.accept.value) : pRequest.accept.value[i] = "text/html"

\* C39: the catch-all route forwards a request to the container (wsConnect
\* or containerFetch) only after ensureClawdbotGateway resolved within the
\* same request; when it rejects, the response is 503 and nothing is
\* forwarded; when no gateway is running and the request is a non-WebSocket
\* request accepting HTML, the loading page is the response before the
\* gateway start has settled, and nothing is forwarded.
C39_ForwardOnlyAfterGatewayEnsured ==
    /\ Cardinality(Forwards) <= 1
    /\ \A i \in Forwards :
        /\ i > 1
        /\ pEvents[i - 1] = Event("ensureClawdbotGateway", "resolved")
    /\ EnsureSettled("rejected") =>
        /\ pPc = "answered"
        /\ pResponse.status = 503
        /\ Forwards = {}
    /\ LoadingCase =>
        /\ pResponse = LoadingPage
        /\ pEvents[2] = Event("ensureClawdbotGateway", "waitUntil")
        /\ ~EnsureSettled("awaited")
        /\ Forwards = {}
    /\ pPc = "background" => (pResponse = LoadingPage /\ Len(pEvents) = 2)

\* No gateway was found and the request does not accept HTML: the handler
\* waited for the gateway start, which resolved, and only then forwarded the
\* request with containerFetch.
C39_Witness ==
    /\ pPc = "answered"
    /\ existingProcess = NullProcess
    /\ pRequest = [upgrade |-> NoHeader, accept |-> Header(<<"*/*">>)]
    /\ pEvents = <<Event("findExistingClawdbotProcess", "resolved"),
                   Event("ensureClawdbotGateway", "awaited"),
                   Event("ensureClawdbotGateway", "resolved"),
                   Event("containerFetch", "resolved")>>
    /\ pResponse = Forwarded("containerFetch", 200)

=============================================================================
